---- MODULE Spec2Model ----
(***************************************************************************)
(* The four ProxySQL Ansible modules (proxysql_mysql_users,                *)
(* proxysql_scheduler, proxysql_global_variables, proxysql_manage_config)  *)
(* as one state machine.  One behaviour follows one module ("family"):     *)
(* a sequence of invocations of its main() against the admin interface's   *)
(* in-memory tables.  Every cursor.execute of the code is one step, so a   *)
(* store error (MySQLdb.Error) can be raised at each statement.            *)
(***************************************************************************)
EXTENDS Integers, Sequences, FiniteSets, Bags, TLC

VARIABLES
    family,            \* which module's main() the behaviour runs
    mysqldb_found,     \* module global set by the import at load time
    mysql_users,       \* table mysql_users: a set of rows, unique per key
    scheduler,         \* table scheduler: a bag of rows (id is autoincrement)
    global_variables,  \* table global_variables: variable_name -> value
    p,                 \* module.params and module.check_mode of the invocation
    pc,                \* position of the invocation in main()
    cursor,            \* None until mysql_connect returned a cursor
    result,            \* the outcome handed to exit_json / fail_json
    log,               \* statements this invocation issued, in order
    before,            \* the family's table when the invocation started
    prev,              \* summary of the invocation this one repeats, if any
    other              \* a second process of the module, while it waits

vars == <<family, mysqldb_found, mysql_users, scheduler, global_variables,
          p, pc, cursor, result, log, before, prev, other>>

tables == <<mysql_users, scheduler, global_variables>>

----------------------------------------------------------------------------
(* Bounds of the model *)

\* largest number of rows the mysql_users table holds: an INSERT into a
\* full table is refused by the store
MaxUsers == 2

\* largest number of rows the scheduler table holds
MaxSchedules == 2

\* statements whose text is kept on record when the column order is studied
MaxStatements == 3

----------------------------------------------------------------------------
(* Python and SQL values *)

\* Python None: a parameter the caller did not supply
None == "None"

\* SQL NULL: a column without a value; no equality predicate matches it
NULL == "NULL"

\* result['changed'] is whatever the *_config function returned
PyNone == [kind |-> "none", truth |-> FALSE, rowcount |-> 0]

PyBool(b) == [kind |-> "bool", truth |-> b, rowcount |-> 0]

PyTuple(b, n) == [kind |-> "tuple", truth |-> b, rowcount |-> n]

\* Python truth value: a non-empty tuple is true
Truthy(v) ==
    CASE v.kind = "bool" -> v.truth
      [] v.kind = "tuple" -> TRUE
      [] OTHER -> FALSE

Families == {"users", "scheduler", "variables", "manage_config"}

\* login_port values offered to an invocation: both limits and their neighbours
Ports == {-1, 0, 65535, 65536}

ValidPorts == {0, 65535}

NoPrev == [valid |-> FALSE]

NoParams == [check_mode |-> FALSE]

\* no second process runs
NoOther == [pc |-> "none"]

NoResult ==
    [changed |-> PyNone, msg |-> <<>>, failed |-> FALSE,
     action |-> "none", echo |-> {}]

\* the diagnostic text of a MySQLdb.Error
StoreDiagnostic == "e"

Pass == <<>>

ConnectError == <<"unable to connect to ProxySQL Admin Module.. ", StoreDiagnostic>>

MysqldbRequired == <<"the python mysqldb module is required">>

PortError == <<"login_port must be a valid unix port number (0-65535)">>

\* faulty variant of fail_json: the failure is recorded and control goes
\* back to the statement that raised it
fail_json_returns(m) ==
    /\ result' = [changed |-> PyNone, msg |-> m, failed |-> TRUE,
                  action |-> result.action, echo |-> {}]
    /\ pc' = pc

\* module.fail_json(msg=m): the outcome is the message alone and main() ends
fail_json(m) ==
    /\ result' = [changed |-> PyNone, msg |-> m, failed |-> TRUE,
                  action |-> result.action, echo |-> {}]
    /\ pc' = "done"

\* cursor.execute(s): the statement reaches the store
execute(s) == log' = Append(log, s)

IsMutation(s) == s \in {"INSERT", "UPDATE", "DELETE"}

IsSave(s) ==
    s \in {"SAVE MYSQL USERS TO DISK", "SAVE SCHEDULER TO DISK",
           "SAVE MYSQL VARIABLES TO DISK", "SAVE ADMIN VARIABLES TO DISK"}

IsLoad(s) ==
    s \in {"LOAD MYSQL USERS TO RUNTIME", "LOAD SCHEDULER TO RUNTIME",
           "LOAD MYSQL VARIABLES TO RUNTIME", "LOAD ADMIN VARIABLES TO RUNTIME"}

Issued(P(_)) == \E i \in 1..Len(log) : P(log[i])

\* a store error is raised by the statement issued last, so a mutating
\* statement succeeded when it is not the last of a failed run; the
\* manage_config module issues admin commands only
Mutated ==
    /\ family # "manage_config"
    /\ \E i \in 1..Len(log) :
          IsMutation(log[i]) /\ (i < Len(log) \/ ~result.failed)

CurrentTable ==
    CASE family = "users" -> mysql_users
      [] family = "scheduler" -> scheduler
      [] family = "variables" -> global_variables
      [] OTHER -> {}

----------------------------------------------------------------------------
(* proxysql_mysql_users *)

Usernames == {"u1"}

config_data_keys_users ==
    <<"password", "active", "use_ssl", "default_hostgroup", "default_schema",
      "transaction_persistent", "fast_forward", "max_connections">>

\* the attribute values offered to an invocation; None = not supplied
UserConfigData ==
    [password : {None, "a"},
     active : {None, "0"},
     use_ssl : {None},
     default_hostgroup : {None},
     default_schema : {None},
     transaction_persistent : {None},
     fast_forward : {None},
     max_connections : {None}]

\* what the store writes into a column the INSERT does not name
UserDefault ==
    [password |-> NULL, active |-> "1", use_ssl |-> "0",
     default_hostgroup |-> "0", default_schema |-> NULL,
     transaction_persistent |-> "0", fast_forward |-> "0",
     max_connections |-> "10000"]

\* the keys offered to an invocation: a user of at least one side
UserKeys ==
    {k \in [username : Usernames, backend : BOOLEAN, frontend : BOOLEAN] :
        k.backend \/ k.frontend}

UserParams ==
    {q \in [login_port : Ports, username : Usernames, backend : BOOLEAN,
            frontend : BOOLEAN, config_data : UserConfigData,
            state : {"present", "absent"}, save_to_disk : BOOLEAN,
            load_to_runtime : BOOLEAN, check_mode : BOOLEAN] :
        \E k \in UserKeys :
            /\ q.username = k.username
            /\ q.backend = k.backend
            /\ q.frontend = k.frontend}

users_perform_checks(q) ==
    IF q.login_port < 0 \/ q.login_port > 65535 THEN PortError
    ELSE IF ~mysqldb_found THEN MysqldbRequired
    ELSE Pass

\* proxysql_user = ProxySQLUser(module): the fields main() works with
ProxySQLUser(q) ==
    [state |-> q.state, save_to_disk |-> q.save_to_disk,
     load_to_runtime |-> q.load_to_runtime, username |-> q.username,
     backend |-> q.backend, frontend |-> q.frontend,
     config_data |-> q.config_data, check_mode |-> q.check_mode]

\* WHERE username = %s AND backend = %s AND frontend = %s
UserKeyMatch(r, q) ==
    /\ r.username = q.username
    /\ r.backend = q.backend
    /\ r.frontend = q.frontend

\* faulty variant of UserPrivsMatch: a column the descriptor leaves out
\* is compared with the column's default
UserPrivsMatch_all_columns(r, q) ==
    /\ UserKeyMatch(r, q)
    /\ \A i \in 1..Len(config_data_keys_users) :
         LET col == config_data_keys_users[i] IN
         IF q.config_data[col] # None THEN r[col] = q.config_data[col]
         ELSE r[col] = UserDefault[col]

\* the key predicate plus "AND col = %s" for every col whose value is not None
UserPrivsMatch(r, q) ==
    /\ UserKeyMatch(r, q)
    /\ \A i \in 1..Len(config_data_keys_users) :
         LET col == config_data_keys_users[i] IN
         q.config_data[col] # None => r[col] = q.config_data[col]

\* faulty variant of check_user_config_exists: the frontend flag is left
\* out of the predicate
check_user_config_exists_no_frontend(q, rows) ==
    Cardinality({r \in rows : /\ r.username = q.username
                              /\ r.backend = q.backend}) > 0

check_user_config_exists(q, rows) ==
    Cardinality({r \in rows : UserKeyMatch(r, q)}) > 0

check_user_privs(q, rows) ==
    Cardinality({r \in rows : UserPrivsMatch(r, q)}) > 0

\* SELECT * ... WHERE key; fetchone() gives one of the rows, or None
get_user_config(q, rows) ==
    LET found == {r \in rows : UserKeyMatch(r, q)} IN
    IF found = {} THEN {{}} ELSE {{r} : r \in found}

\* faulty variant of UserInserted: a column the descriptor leaves out is
\* named in the INSERT with a null value
UserInserted_names_absent(q, col) ==
    IF q.config_data[col] # None THEN q.config_data[col] ELSE NULL

\* the value the INSERT leaves in column col
UserInserted(q, col) ==
    IF q.config_data[col] # None THEN q.config_data[col] ELSE UserDefault[col]

\* faulty variant of create_user_config: the row is written with REPLACE
\* semantics on the username, so rows of the same username go
create_user_config_replaces_username(q, rows) ==
    {r \in rows : r.username # q.username} \cup
    {[username |-> q.username, backend |-> q.backend, frontend |-> q.frontend,
      password |-> UserInserted(q, "password"),
      active |-> UserInserted(q, "active"),
      use_ssl |-> UserInserted(q, "use_ssl"),
      default_hostgroup |-> UserInserted(q, "default_hostgroup"),
      default_schema |-> UserInserted(q, "default_schema"),
      transaction_persistent |-> UserInserted(q, "transaction_persistent"),
      fast_forward |-> UserInserted(q, "fast_forward"),
      max_connections |-> UserInserted(q, "max_connections")]}

create_user_config(q, rows) ==
    rows \cup
    {[username |-> q.username, backend |-> q.backend, frontend |-> q.frontend,
      password |-> UserInserted(q, "password"),
      active |-> UserInserted(q, "active"),
      use_ssl |-> UserInserted(q, "use_ssl"),
      default_hostgroup |-> UserInserted(q, "default_hostgroup"),
      default_schema |-> UserInserted(q, "default_schema"),
      transaction_persistent |-> UserInserted(q, "transaction_persistent"),
      fast_forward |-> UserInserted(q, "fast_forward"),
      max_connections |-> UserInserted(q, "max_connections")]}

\* faulty variant of UserUpdated: a column the descriptor leaves out is
\* set back to its default
UserUpdated_resets_absent(q, r, col) ==
    IF q.config_data[col] # None THEN q.config_data[col] ELSE UserDefault[col]

\* the value the UPDATE leaves in column col of a row it matches
UserUpdated(q, r, col) ==
    IF q.config_data[col] # None THEN q.config_data[col] ELSE r[col]

update_user_config(q, rows) ==
    {IF UserKeyMatch(r, q)
       THEN [username |-> r.username, backend |-> r.backend,
             frontend |-> r.frontend,
             password |-> UserUpdated(q, r, "password"),
             active |-> UserUpdated(q, r, "active"),
             use_ssl |-> UserUpdated(q, r, "use_ssl"),
             default_hostgroup |-> UserUpdated(q, r, "default_hostgroup"),
             default_schema |-> UserUpdated(q, r, "default_schema"),
             transaction_persistent |-> UserUpdated(q, r, "transaction_persistent"),
             fast_forward |-> UserUpdated(q, r, "fast_forward"),
             max_connections |-> UserUpdated(q, r, "max_connections")]
       ELSE r : r \in rows}

\* with no SET column the statement text loses its last character and
\* has no SET clause: the store rejects it
UpdateUserWellFormed(q) ==
    \E i \in 1..Len(config_data_keys_users) :
        q.config_data[config_data_keys_users[i]] # None

\* faulty variant of delete_user_config: the DELETE names the supplied
\* attributes as well
delete_user_config_full_predicate(q, rows) ==
    {r \in rows : ~UserPrivsMatch(r, q)}

delete_user_config(q, rows) == {r \in rows : ~UserKeyMatch(r, q)}

\* the store refuses a second row with the key of an existing one
UserKeyTaken(q, rows) == \E r \in rows : UserKeyMatch(r, q)

\* faulty variant of users_manage_config: LOAD is issued first
users_manage_config_load_first(q, state) ==
    IF state /\ q.load_to_runtime THEN "load_config_to_runtime"
    ELSE IF state /\ q.save_to_disk THEN "save_config_to_disk"
    ELSE "done"

\* manage_config(cursor, state): where main() continues after the mutation
users_manage_config(q, state) ==
    IF state /\ q.save_to_disk THEN "save_config_to_disk"
    ELSE IF state /\ q.load_to_runtime THEN "load_config_to_runtime"
    ELSE "done"

\* faulty variant of UserStoreError: the except clauses of the state
\* branches reuse the text of the connection failure
UserStoreError_connect_text(q) ==
    <<"unable to connect to ProxySQL Admin Module.. ", StoreDiagnostic>>

UserStoreError(q) ==
    IF q.state = "present"
    THEN <<"unable to modify user.. ", StoreDiagnostic>>
    ELSE <<"unable to remove user.. ", StoreDiagnostic>>

\* faulty variant of create_user: manage_config is called in check mode
\* as well
create_user_propagates_in_check_mode ==
    IF p.check_mode
    THEN /\ result' = [result EXCEPT
                         !.changed = PyBool(TRUE),
                         !.msg = <<"User would have been added to mysql_users, however check_mode is enabled.">>,
                         !.action = "create"]
         /\ pc' = users_manage_config(p, TRUE)
    ELSE /\ result' = [result EXCEPT !.action = "create"]
         /\ pc' = "create_user_config"

\* create_user(check_mode, result, cursor), up to its first statement
create_user ==
    IF p.check_mode
    THEN /\ result' = [result EXCEPT
                         !.changed = PyBool(TRUE),
                         !.msg = <<"User would have been added to mysql_users, however check_mode is enabled.">>,
                         !.action = "create"]
         /\ pc' = "done"
    ELSE /\ result' = [result EXCEPT !.action = "create"]
         /\ pc' = "create_user_config"

update_user ==
    IF p.check_mode
    THEN /\ result' = [result EXCEPT
                         !.changed = PyBool(TRUE),
                         !.msg = <<"User would have been updated in mysql_users, however check_mode is enabled.">>,
                         !.action = "update"]
         /\ pc' = "done"
    ELSE /\ result' = [result EXCEPT !.action = "update"]
         /\ pc' = "update_user_config"

delete_user ==
    IF p.check_mode
    THEN /\ result' = [result EXCEPT
                         !.changed = PyBool(TRUE),
                         !.msg = <<"User would have been deleted from mysql_users, however check_mode is enabled.">>,
                         !.action = "delete"]
         /\ pc' = "done"
    ELSE /\ result' = [result EXCEPT !.action = "delete"]
         /\ pc' = "get_user_config"

\* main(): the branch state=present takes on table rows
present_action_users(q, rows) ==
    IF ~check_user_privs(q, rows)
    THEN IF ~check_user_config_exists(q, rows) THEN "create" ELSE "update"
    ELSE "noop"

\* main(): if not proxysql_user.check_user_privs(cursor)
CheckUserPrivs ==
    /\ family = "users" /\ pc = "check_user_privs"
    /\ execute("SELECT")
    /\ \E ok \in BOOLEAN :
         IF ~ok THEN fail_json(UserStoreError(p))
         ELSE IF check_user_privs(p, mysql_users)
         THEN /\ result' = [result EXCEPT
                              !.changed = PyBool(FALSE),
                              !.msg = <<"The user already exists in mysql_users and doesn't need to be updated.">>,
                              !.action = "noop"]
              /\ pc' = "get_user_config"
         ELSE /\ pc' = "check_user_config_exists"
              /\ UNCHANGED result
    /\ UNCHANGED <<family, mysqldb_found, other, tables, p, cursor, before, prev>>

\* main(): the check_user_config_exists(cursor) of either state
CheckUserConfigExists ==
    /\ family = "users" /\ pc = "check_user_config_exists"
    /\ execute("SELECT")
    /\ \E ok \in BOOLEAN :
         IF ~ok THEN fail_json(UserStoreError(p))
         ELSE IF p.state = "present"
         THEN IF ~check_user_config_exists(p, mysql_users)
              THEN create_user
              ELSE update_user
         ELSE IF check_user_config_exists(p, mysql_users)
              THEN delete_user
              ELSE /\ result' = [result EXCEPT
                                   !.changed = PyBool(FALSE),
                                   !.msg = <<"The user is already absent from the mysql_users memory configuration">>,
                                   !.action = "noop"]
                   /\ pc' = "done"
    /\ UNCHANGED <<family, mysqldb_found, other, tables, p, cursor, before, prev>>

\* faulty variant of CreateUserConfig: the error of a refused INSERT is
\* swallowed and the run goes on as after a successful one
CreateUserConfig_swallows_error ==
    /\ family = "users" /\ pc = "create_user_config"
    /\ execute("INSERT")
    /\ \E ok \in BOOLEAN :
         IF ok /\ ~UserKeyTaken(p, mysql_users)
               /\ Cardinality(mysql_users) < MaxUsers
         THEN /\ mysql_users' = create_user_config(p, mysql_users)
              /\ result' = [result EXCEPT
                              !.changed = PyBool(TRUE),
                              !.msg = <<"Added user to mysql_users">>]
              /\ pc' = "get_user_config"
         ELSE /\ result' = [result EXCEPT
                              !.changed = PyBool(TRUE),
                              !.msg = <<"Added user to mysql_users">>]
              /\ pc' = "get_user_config"
              /\ UNCHANGED mysql_users
    /\ UNCHANGED <<family, mysqldb_found, other, scheduler, global_variables,
                   p, cursor, before, prev>>

CreateUserConfig ==
    /\ family = "users" /\ pc = "create_user_config"
    /\ execute("INSERT")
    /\ \E ok \in BOOLEAN :
         IF ok /\ ~UserKeyTaken(p, mysql_users)
               /\ Cardinality(mysql_users) < MaxUsers
         THEN /\ mysql_users' = create_user_config(p, mysql_users)
              /\ result' = [result EXCEPT
                              !.changed = PyBool(TRUE),
                              !.msg = <<"Added user to mysql_users">>]
              /\ pc' = "get_user_config"
         ELSE /\ fail_json(UserStoreError(p))
              /\ UNCHANGED mysql_users
    /\ UNCHANGED <<family, mysqldb_found, other, scheduler, global_variables,
                   p, cursor, before, prev>>

UpdateUserConfig ==
    /\ family = "users" /\ pc = "update_user_config"
    /\ execute("UPDATE")
    /\ \E ok \in BOOLEAN :
         IF ok /\ UpdateUserWellFormed(p)
         THEN /\ mysql_users' = update_user_config(p, mysql_users)
              /\ result' = [result EXCEPT
                              !.changed = PyBool(TRUE),
                              !.msg = <<"Updated user in mysql_users">>]
              /\ pc' = "get_user_config"
         ELSE /\ fail_json(UserStoreError(p))
              /\ UNCHANGED mysql_users
    /\ UNCHANGED <<family, mysqldb_found, other, scheduler, global_variables,
                   p, cursor, before, prev>>

\* result['user'] = get_user_config(cursor) of create_user, update_user,
\* delete_user and of the branch that needs no update
GetUserConfig ==
    /\ family = "users" /\ pc = "get_user_config"
    /\ execute("SELECT")
    /\ \E ok \in BOOLEAN :
         IF ~ok THEN fail_json(UserStoreError(p))
         ELSE /\ \E u \in get_user_config(p, mysql_users) :
                   result' = [result EXCEPT !.echo = u]
              /\ pc' = CASE result.action = "noop" -> "done"
                         [] result.action = "delete" -> "delete_user_config"
                         [] OTHER ->
                              users_manage_config(p, Truthy(result.changed))
    /\ UNCHANGED <<family, mysqldb_found, other, tables, p, cursor, before, prev>>

DeleteUserConfig ==
    /\ family = "users" /\ pc = "delete_user_config"
    /\ execute("DELETE")
    /\ \E ok \in BOOLEAN :
         IF ok
         THEN /\ mysql_users' = delete_user_config(p, mysql_users)
              /\ result' = [result EXCEPT
                              !.changed = PyBool(TRUE),
                              !.msg = <<"Deleted user from mysql_users">>]
              /\ pc' = users_manage_config(p, TRUE)
         ELSE /\ fail_json(UserStoreError(p))
              /\ UNCHANGED mysql_users
    /\ UNCHANGED <<family, mysqldb_found, other, scheduler, global_variables,
                   p, cursor, before, prev>>

\* faulty variant of UsersSaveConfigToDisk: a failed SAVE puts the table
\* back as it was at the start
UsersSaveConfigToDisk_rolls_back ==
    /\ family = "users" /\ pc = "save_config_to_disk"
    /\ execute("SAVE MYSQL USERS TO DISK")
    /\ \E ok \in BOOLEAN :
         IF ok
         THEN /\ pc' = IF p.load_to_runtime THEN "load_config_to_runtime"
                       ELSE "done"
              /\ UNCHANGED <<result, mysql_users>>
         ELSE /\ fail_json(UserStoreError(p))
              /\ mysql_users' = before
    /\ UNCHANGED <<family, mysqldb_found, other, scheduler, global_variables,
                   p, cursor, before, prev>>

\* save_config_to_disk(cursor) inside manage_config
UsersSaveConfigToDisk ==
    /\ family = "users" /\ pc = "save_config_to_disk"
    /\ execute("SAVE MYSQL USERS TO DISK")
    /\ \E ok \in BOOLEAN :
         IF ok
         THEN /\ pc' = IF p.load_to_runtime THEN "load_config_to_runtime"
                       ELSE "done"
              /\ UNCHANGED result
         ELSE fail_json(UserStoreError(p))
    /\ UNCHANGED <<family, mysqldb_found, other, tables, p, cursor, before, prev>>

UsersLoadConfigToRuntime ==
    /\ family = "users" /\ pc = "load_config_to_runtime"
    /\ execute("LOAD MYSQL USERS TO RUNTIME")
    /\ \E ok \in BOOLEAN :
         IF ok
         THEN pc' = "done" /\ UNCHANGED result
         ELSE fail_json(UserStoreError(p))
    /\ UNCHANGED <<family, mysqldb_found, other, tables, p, cursor, before, prev>>

----------------------------------------------------------------------------
(* proxysql_scheduler *)

Filenames == {"f"}

\* interval_ms values offered: both limits and their neighbours
Intervals == {99, 100, 100000000, 100000001}

config_data_keys_scheduler ==
    <<"arg1", "arg2", "arg3", "arg4", "arg5", "comment">>

\* the attribute values offered to an invocation; None = not supplied
ScheduleConfigData ==
    [arg1 : {None, "x"},
     arg2 : {None},
     arg3 : {None},
     arg4 : {None},
     arg5 : {None},
     comment : {None, "c"}]

\* what the store writes into a column the INSERT does not name
ScheduleDefault ==
    [arg1 |-> NULL, arg2 |-> NULL, arg3 |-> NULL, arg4 |-> NULL,
     arg5 |-> NULL, comment |-> ""]

ScheduleParams ==
    [login_port : Ports, active : {TRUE}, interval_ms : Intervals,
     filename : Filenames, config_data : ScheduleConfigData,
     state : {"present", "absent"}, force_delete : BOOLEAN,
     save_to_disk : BOOLEAN, load_to_runtime : BOOLEAN,
     check_mode : BOOLEAN]

\* faulty variant of scheduler_perform_checks: the interval bounds are
\* excluded
scheduler_perform_checks_strict(q) ==
    IF q.login_port < 0 \/ q.login_port > 65535 THEN PortError
    ELSE IF q.interval_ms <= 100 \/ q.interval_ms >= 100000000
    THEN <<"interval_ms must between 100ms & 100000000ms">>
    ELSE IF ~mysqldb_found THEN MysqldbRequired
    ELSE Pass

scheduler_perform_checks(q) ==
    IF q.login_port < 0 \/ q.login_port > 65535 THEN PortError
    ELSE IF q.interval_ms < 100 \/ q.interval_ms > 100000000
    THEN <<"interval_ms must between 100ms & 100000000ms">>
    ELSE IF ~mysqldb_found THEN MysqldbRequired
    ELSE Pass

\* proxysql_schedule = ProxySQLSchedule(module)
ProxySQLSchedule(q) ==
    [state |-> q.state, force_delete |-> q.force_delete,
     save_to_disk |-> q.save_to_disk,
     load_to_runtime |-> q.load_to_runtime, active |-> q.active,
     interval_ms |-> q.interval_ms, filename |-> q.filename,
     config_data |-> q.config_data, check_mode |-> q.check_mode]

\* WHERE active = %s AND interval_ms = %s AND filename = %s
ScheduleKeyMatch(r, q) ==
    /\ r.active = q.active
    /\ r.interval_ms = q.interval_ms
    /\ r.filename = q.filename

\* the key predicate plus "AND col = %s" for every col whose value is not None
ScheduleMatch(r, q) ==
    /\ ScheduleKeyMatch(r, q)
    /\ \A i \in 1..Len(config_data_keys_scheduler) :
         LET col == config_data_keys_scheduler[i] IN
         q.config_data[col] # None => r[col] = q.config_data[col]

\* SELECT * with the full predicate; fetchall() gives every matching row
get_schedule_config(q, rows) ==
    [r \in {x \in DOMAIN rows : ScheduleMatch(x, q)} |-> rows[r]]

\* faulty variant of check_schedule_config: counts on the key fields alone
check_schedule_config_key_only(q, rows) ==
    BagCardinality([r \in {x \in DOMAIN rows : ScheduleKeyMatch(x, q)}
                      |-> rows[r]])

\* SELECT count(*) with the full predicate
check_schedule_config(q, rows) == BagCardinality(get_schedule_config(q, rows))

\* faulty variant of ScheduleInserted: the supplied attribute is not
\* written, the column keeps its default
ScheduleInserted_default_only(q, col) == ScheduleDefault[col]

\* the value the INSERT leaves in column col
ScheduleInserted(q, col) ==
    IF q.config_data[col] # None THEN q.config_data[col]
    ELSE ScheduleDefault[col]

\* faulty variant of create_schedule_config: the rows with the key fields
\* are replaced by the new row
create_schedule_config_replaces(q, rows) ==
    [r \in {x \in DOMAIN rows : ~ScheduleKeyMatch(x, q)} |-> rows[r]]
    (+) SetToBag(
    {[active |-> q.active, interval_ms |-> q.interval_ms,
      filename |-> q.filename,
      arg1 |-> ScheduleInserted(q, "arg1"),
      arg2 |-> ScheduleInserted(q, "arg2"),
      arg3 |-> ScheduleInserted(q, "arg3"),
      arg4 |-> ScheduleInserted(q, "arg4"),
      arg5 |-> ScheduleInserted(q, "arg5"),
      comment |-> ScheduleInserted(q, "comment")]})

create_schedule_config(q, rows) ==
    rows (+) SetToBag(
    {[active |-> q.active, interval_ms |-> q.interval_ms,
      filename |-> q.filename,
      arg1 |-> ScheduleInserted(q, "arg1"),
      arg2 |-> ScheduleInserted(q, "arg2"),
      arg3 |-> ScheduleInserted(q, "arg3"),
      arg4 |-> ScheduleInserted(q, "arg4"),
      arg5 |-> ScheduleInserted(q, "arg5"),
      comment |-> ScheduleInserted(q, "comment")]})

\* faulty variant of delete_schedule_config: the DELETE names the key
\* fields alone
delete_schedule_config_key_only(q, rows) ==
    [r \in {x \in DOMAIN rows : ~ScheduleKeyMatch(x, q)} |-> rows[r]]

\* DELETE with the full predicate: every matching row goes
delete_schedule_config(q, rows) ==
    [r \in {x \in DOMAIN rows : ~ScheduleMatch(x, q)} |-> rows[r]]

\* what delete_schedule_config returns: True, int(cursor.rowcount)
delete_schedule_config_return(q, rows) ==
    PyTuple(TRUE, check_schedule_config(q, rows))

scheduler_manage_config(q, state) ==
    IF state /\ q.save_to_disk THEN "save_config_to_disk"
    ELSE IF state /\ q.load_to_runtime THEN "load_config_to_runtime"
    ELSE "done"

ScheduleStoreError(q) ==
    IF q.state = "present"
    THEN <<"unable to modify schedule.. ", StoreDiagnostic>>
    ELSE <<"unable to remove schedule.. ", StoreDiagnostic>>

\* create_schedule(check_mode, result, cursor), up to its first statement
create_schedule ==
    IF p.check_mode
    THEN /\ result' = [result EXCEPT
                         !.changed = PyBool(TRUE),
                         !.msg = <<"Schedule would have been added to scheduler, however check_mode is enabled.">>,
                         !.action = "create"]
         /\ pc' = "done"
    ELSE /\ result' = [result EXCEPT !.action = "create"]
         /\ pc' = "create_schedule_config"

\* faulty variant of delete_schedule: check_mode is not consulted
delete_schedule_ignores_check_mode ==
    /\ result' = [result EXCEPT !.action = "delete"]
    /\ pc' = "get_schedule_config"

delete_schedule ==
    IF p.check_mode
    THEN /\ result' = [result EXCEPT
                         !.changed = PyBool(TRUE),
                         !.msg = <<"Schedule would have been deleted from scheduler, however check_mode is enabled.">>,
                         !.action = "delete"]
         /\ pc' = "done"
    ELSE /\ result' = [result EXCEPT !.action = "delete"]
         /\ pc' = "get_schedule_config"

\* main(): the branch state=present takes on table rows
present_action_scheduler(q, rows) ==
    IF ~(check_schedule_config(q, rows) > 0) THEN "create" ELSE "noop"

\* faulty variant of multiple_records_fail: the failure is recorded but
\* the run goes on to the DELETE
multiple_records_fail_continues ==
    /\ result' =
         [changed |-> PyNone,
          msg |-> <<"Operation would delete multiple records use force_delete to override this">>,
          failed |-> TRUE, action |-> "rejected",
          echo |-> {}]
    /\ pc' = "delete_schedule_config"

\* module.fail_json(msg=("Operation would delete multiple records" + ...))
multiple_records_fail ==
    /\ result' =
         [changed |-> PyNone,
          msg |-> <<"Operation would delete multiple records use force_delete to override this">>,
          failed |-> TRUE, action |-> "rejected",
          echo |-> {}]
    /\ pc' = "done"

\* main(): the check_schedule_config(cursor) of either state
CheckScheduleConfig ==
    /\ family = "scheduler" /\ pc = "check_schedule_config"
    /\ execute("SELECT")
    /\ \E ok \in BOOLEAN :
         LET existing_schedules == check_schedule_config(p, scheduler) IN
         IF ~ok THEN fail_json(ScheduleStoreError(p))
         ELSE IF p.state = "present"
         THEN IF ~(existing_schedules > 0)
              THEN create_schedule
              ELSE /\ result' = [result EXCEPT
                                   !.changed = PyBool(FALSE),
                                   !.msg = <<"The schedule already exists and doesn't need to be updated.">>,
                                   !.action = "noop"]
                   /\ pc' = "get_schedule_config"
         ELSE IF existing_schedules > 0
              THEN IF existing_schedules = 1 \/ p.force_delete
                   THEN delete_schedule
                   ELSE multiple_records_fail
              ELSE /\ result' = [result EXCEPT
                                   !.changed = PyBool(FALSE),
                                   !.msg = <<"The schedule is already absent from the memory configuration">>,
                                   !.action = "noop"]
                   /\ pc' = "done"
    /\ UNCHANGED <<family, mysqldb_found, other, tables, p, cursor, before, prev>>

CreateScheduleConfig ==
    /\ family = "scheduler" /\ pc = "create_schedule_config"
    /\ execute("INSERT")
    /\ \E ok \in BOOLEAN :
         IF ok /\ BagCardinality(scheduler) < MaxSchedules
         THEN /\ scheduler' = create_schedule_config(p, scheduler)
              /\ result' = [result EXCEPT
                              !.changed = PyBool(TRUE),
                              !.msg = <<"Added schedule to scheduler">>]
              /\ pc' = "get_schedule_config"
         ELSE /\ fail_json(ScheduleStoreError(p))
              /\ UNCHANGED scheduler
    /\ UNCHANGED <<family, mysqldb_found, other, mysql_users, global_variables,
                   p, cursor, before, prev>>

\* result['schedules'] = get_schedule_config(cursor) of create_schedule,
\* delete_schedule and of the branch that needs no update
GetScheduleConfig ==
    /\ family = "scheduler" /\ pc = "get_schedule_config"
    /\ execute("SELECT")
    /\ \E ok \in BOOLEAN :
         IF ~ok THEN fail_json(ScheduleStoreError(p))
         ELSE /\ result' = [result EXCEPT
                              !.echo = get_schedule_config(p, scheduler)]
              /\ pc' = CASE result.action = "noop" -> "done"
                         [] result.action = "delete" -> "delete_schedule_config"
                         [] OTHER ->
                              scheduler_manage_config(p, Truthy(result.changed))
    /\ UNCHANGED <<family, mysqldb_found, other, tables, p, cursor, before, prev>>

DeleteScheduleConfig ==
    /\ family = "scheduler" /\ pc = "delete_schedule_config"
    /\ execute("DELETE")
    /\ \E ok \in BOOLEAN :
         IF ok
         THEN /\ scheduler' = delete_schedule_config(p, scheduler)
              /\ result' = [result EXCEPT
                              !.changed = delete_schedule_config_return(p, scheduler),
                              !.msg = <<"Deleted schedule from scheduler">>]
              /\ pc' = scheduler_manage_config(
                           p, Truthy(delete_schedule_config_return(p, scheduler)))
         ELSE /\ fail_json(ScheduleStoreError(p))
              /\ UNCHANGED scheduler
    /\ UNCHANGED <<family, mysqldb_found, other, mysql_users, global_variables,
                   p, cursor, before, prev>>

\* faulty variant of SchedulerSaveConfigToDisk: the error of a failed SAVE
\* is recorded and manage_config goes on to the LOAD
SchedulerSaveConfigToDisk_goes_on ==
    /\ family = "scheduler" /\ pc = "save_config_to_disk"
    /\ execute("SAVE SCHEDULER TO DISK")
    /\ \E ok \in BOOLEAN :
         /\ pc' = IF p.load_to_runtime THEN "load_config_to_runtime"
                  ELSE "done"
         /\ IF ok THEN UNCHANGED result
            ELSE result' = [changed |-> PyNone, msg |-> ScheduleStoreError(p),
                            failed |-> TRUE, action |-> result.action,
                            echo |-> {}]
    /\ UNCHANGED <<family, mysqldb_found, other, tables, p, cursor, before, prev>>

SchedulerSaveConfigToDisk ==
    /\ family = "scheduler" /\ pc = "save_config_to_disk"
    /\ execute("SAVE SCHEDULER TO DISK")
    /\ \E ok \in BOOLEAN :
         IF ok
         THEN /\ pc' = IF p.load_to_runtime THEN "load_config_to_runtime"
                       ELSE "done"
              /\ UNCHANGED result
         ELSE fail_json(ScheduleStoreError(p))
    /\ UNCHANGED <<family, mysqldb_found, other, tables, p, cursor, before, prev>>

SchedulerLoadConfigToRuntime ==
    /\ family = "scheduler" /\ pc = "load_config_to_runtime"
    /\ execute("LOAD SCHEDULER TO RUNTIME")
    /\ \E ok \in BOOLEAN :
         IF ok
         THEN pc' = "done" /\ UNCHANGED result
         ELSE fail_json(ScheduleStoreError(p))
    /\ UNCHANGED <<family, mysqldb_found, other, tables, p, cursor, before, prev>>

----------------------------------------------------------------------------
(* proxysql_global_variables *)

\* variable names are character sequences: startswith reads a prefix
AdminVariable == <<"a", "d", "m", "i", "n", "-", "r">>

MysqlVariable == <<"m", "y", "s", "q", "l", "-", "t">>

UnknownVariable == <<"m", "y", "s", "q", "l", "-", "u">>

\* the rows the global_variables table holds
VariableNames == {AdminVariable, MysqlVariable}

\* value as the caller can give it: not supplied, empty, or a setting
VariableValues == {None, "", "2000", "4096"}

StoredValues == {"2000", "4096"}

VariableParams ==
    [login_port : Ports,
     variable : VariableNames \cup {UnknownVariable},
     value : VariableValues, save_to_disk : BOOLEAN,
     load_to_runtime : BOOLEAN, check_mode : BOOLEAN]

variables_perform_checks(q) ==
    IF q.login_port < 0 \/ q.login_port > 65535 THEN PortError
    ELSE IF ~mysqldb_found THEN MysqldbRequired
    ELSE Pass

\* the locals main() reads from module.params
VariableLocals(q) ==
    [variable |-> q.variable, value |-> q.value,
     save_to_disk |-> q.save_to_disk,
     load_to_runtime |-> q.load_to_runtime, check_mode |-> q.check_mode]

\* faulty variant of ValueSupplied: the lookup branch is never taken
ValueSupplied_always(v) == TRUE

\* Python truth of the value parameter: None and "" are false
ValueSupplied(v) == v # None /\ v # ""

\* variable.startswith("admin")
startswith_admin(variable) ==
    /\ Len(variable) >= 5
    /\ SubSeq(variable, 1, 5) = <<"a", "d", "m", "i", "n">>

save_config_to_disk_variables(variable) ==
    IF startswith_admin(variable) THEN "SAVE ADMIN VARIABLES TO DISK"
    ELSE "SAVE MYSQL VARIABLES TO DISK"

\* faulty variant of load_config_to_runtime_variables: the runtime load
\* always addresses the MYSQL VARIABLES
load_config_to_runtime_variables_mysql_only(variable) ==
    "LOAD MYSQL VARIABLES TO RUNTIME"

load_config_to_runtime_variables(variable) ==
    IF startswith_admin(variable) THEN "LOAD ADMIN VARIABLES TO RUNTIME"
    ELSE "LOAD MYSQL VARIABLES TO RUNTIME"

\* faulty variant of check_config: the stored value is never found equal
check_config_never_matches(variable, value, rows) == FALSE

\* SELECT count(*) ... WHERE variable_name = %s and variable_value = %s
check_config(variable, value, rows) ==
    variable \in DOMAIN rows /\ rows[variable] = value

\* faulty variant of get_config: a missing variable yields an empty row
\* instead of False
get_config_never_false(variable, rows) ==
    IF variable \in DOMAIN rows
    THEN {[variable_name |-> variable, variable_value |-> rows[variable]]}
    ELSE {[variable_name |-> variable, variable_value |-> ""]}

\* SELECT * ... WHERE variable_name = %s: the row, or False
get_config(variable, rows) ==
    IF variable \in DOMAIN rows
    THEN {[variable_name |-> variable, variable_value |-> rows[variable]]}
    ELSE {}

\* UPDATE global_variables SET variable_value = %s WHERE variable_name = %s
set_config(variable, value, rows) ==
    [v \in DOMAIN rows |-> IF v = variable THEN value ELSE rows[v]]

\* faulty variant of variables_manage_config: LOAD is nested under
\* save_to_disk
variables_manage_config_nested(q, state) ==
    IF state /\ q.save_to_disk THEN "save_config_to_disk"
    ELSE "done"

variables_manage_config(q, state) ==
    IF state /\ q.save_to_disk THEN "save_config_to_disk"
    ELSE IF state /\ q.load_to_runtime THEN "load_config_to_runtime"
    ELSE "done"

VariableStoreError(q) ==
    IF ~ValueSupplied(q.value)
    THEN <<"unable to get config.. ", StoreDiagnostic>>
    ELSE <<"unable to set config.. ", StoreDiagnostic>>

VariableNotFound(q) == <<"The variable \"", q.variable, "\" was not found">>

\* main(): the first get_config(variable, cursor) of either branch
GetConfig ==
    /\ family = "variables" /\ pc = "get_config"
    /\ execute("SELECT")
    /\ \E ok \in BOOLEAN :
         IF ~ok THEN fail_json(VariableStoreError(p))
         ELSE IF get_config(p.variable, global_variables) = {}
         THEN /\ result' = [changed |-> PyNone, msg |-> VariableNotFound(p),
                            failed |-> TRUE, action |-> "not_found",
                            echo |-> {}]
              /\ pc' = "done"
         ELSE IF ~ValueSupplied(p.value)
         THEN /\ result' = [result EXCEPT
                              !.changed = PyBool(FALSE),
                              !.msg = <<"Returned the variable and it's current value">>,
                              !.action = "lookup"]
              /\ pc' = "get_config_var"
         ELSE /\ pc' = "check_config"
              /\ UNCHANGED result
    /\ UNCHANGED <<family, mysqldb_found, other, tables, p, cursor, before, prev>>

\* main(): if not check_config(variable, value, cursor)
CheckConfig ==
    /\ family = "variables" /\ pc = "check_config"
    /\ execute("SELECT")
    /\ \E ok \in BOOLEAN :
         IF ~ok THEN fail_json(VariableStoreError(p))
         ELSE IF ~check_config(p.variable, p.value, global_variables)
         THEN IF ~p.check_mode
              THEN /\ result' = [result EXCEPT !.action = "update"]
                   /\ pc' = "set_config"
              ELSE /\ result' = [result EXCEPT
                                   !.changed = PyBool(TRUE),
                                   !.msg = <<"Variable would have been set to the supplied value, however check_mode is enabled.">>,
                                   !.action = "update"]
                   /\ pc' = "done"
         ELSE /\ result' = [result EXCEPT
                              !.changed = PyBool(FALSE),
                              !.msg = <<"The variable is already been set to the supplied value">>,
                              !.action = "noop"]
              /\ pc' = "get_config_var"
    /\ UNCHANGED <<family, mysqldb_found, other, tables, p, cursor, before, prev>>

SetConfig ==
    /\ family = "variables" /\ pc = "set_config"
    /\ execute("UPDATE")
    /\ \E ok \in BOOLEAN :
         IF ok
         THEN /\ global_variables' =
                   set_config(p.variable, p.value, global_variables)
              /\ result' = [result EXCEPT
                              !.changed = PyBool(TRUE),
                              !.msg = <<"Set the variable to the supplied value">>]
              /\ pc' = "get_config_var"
         ELSE /\ fail_json(VariableStoreError(p))
              /\ UNCHANGED global_variables
    /\ UNCHANGED <<family, mysqldb_found, other, mysql_users, scheduler,
                   p, cursor, before, prev>>

\* result['var'] = get_config(variable, cursor)
GetConfigVar ==
    /\ family = "variables" /\ pc = "get_config_var"
    /\ execute("SELECT")
    /\ \E ok \in BOOLEAN :
         IF ~ok THEN fail_json(VariableStoreError(p))
         ELSE /\ result' = [result EXCEPT
                              !.echo = get_config(p.variable, global_variables)]
              /\ pc' = IF result.action = "update"
                       THEN variables_manage_config(p, Truthy(result.changed))
                       ELSE "done"
    /\ UNCHANGED <<family, mysqldb_found, other, tables, p, cursor, before, prev>>

VariablesSaveConfigToDisk ==
    /\ family = "variables" /\ pc = "save_config_to_disk"
    /\ execute(save_config_to_disk_variables(p.variable))
    /\ \E ok \in BOOLEAN :
         IF ok
         THEN /\ pc' = IF p.load_to_runtime THEN "load_config_to_runtime"
                       ELSE "done"
              /\ UNCHANGED result
         ELSE fail_json(VariableStoreError(p))
    /\ UNCHANGED <<family, mysqldb_found, other, tables, p, cursor, before, prev>>

VariablesLoadConfigToRuntime ==
    /\ family = "variables" /\ pc = "load_config_to_runtime"
    /\ execute(load_config_to_runtime_variables(p.variable))
    /\ \E ok \in BOOLEAN :
         IF ok
         THEN pc' = "done" /\ UNCHANGED result
         ELSE fail_json(VariableStoreError(p))
    /\ UNCHANGED <<family, mysqldb_found, other, tables, p, cursor, before, prev>>

----------------------------------------------------------------------------
(* proxysql_manage_config *)

Actions == {"LOAD", "SAVE"}

Directions == {"FROM", "TO"}

\* config_settings and config_layer are not required (the argument spec
\* spells the key "requirerd"), so either can be None
ConfigSettings == {None, "MYSQL USERS", "SCHEDULER"}

ConfigLayers == {None, "MEMORY", "DISK", "RUNTIME", "CONFIG"}

ManageParams ==
    [login_port : Ports, action : Actions, config_settings : ConfigSettings,
     direction : Directions, config_layer : ConfigLayers,
     check_mode : BOOLEAN]

\* faulty variant of manage_perform_checks: the CONFIG layer is refused
\* only when action and direction are both wrong
manage_perform_checks_both_wrong(q) ==
    IF q.login_port < 0 \/ q.login_port > 65535 THEN PortError
    ELSE IF q.config_layer = "CONFIG"
            /\ (q.action # "LOAD" /\ q.direction # "FROM")
    THEN <<"Neither the action \"", q.action,
           "\" nor the direction \"", q.direction,
           "\" are valid combination with the CONFIG config_layer">>
    ELSE IF ~mysqldb_found THEN MysqldbRequired
    ELSE Pass

\* faulty variant of manage_perform_checks: the single-field messages
\* are exchanged
manage_perform_checks_swapped(q) ==
    IF q.login_port < 0 \/ q.login_port > 65535 THEN PortError
    ELSE IF q.config_layer = "CONFIG"
            /\ (q.action # "LOAD" \/ q.direction # "FROM")
    THEN IF q.action # "LOAD" /\ q.direction # "FROM"
         THEN <<"Neither the action \"", q.action,
                "\" nor the direction \"", q.direction,
                "\" are valid combination with the CONFIG config_layer">>
         ELSE IF q.action # "LOAD"
         THEN <<"The direction \"", q.direction,
                "\" is not a valid combination with the CONFIG config_layer">>
         ELSE <<"The action \"", q.action,
                "\" is not a valid combination with the CONFIG config_layer">>
    ELSE IF ~mysqldb_found THEN MysqldbRequired
    ELSE Pass

manage_perform_checks(q) ==
    IF q.login_port < 0 \/ q.login_port > 65535 THEN PortError
    ELSE IF q.config_layer = "CONFIG"
            /\ (q.action # "LOAD" \/ q.direction # "FROM")
    THEN IF q.action # "LOAD" /\ q.direction # "FROM"
         THEN <<"Neither the action \"", q.action,
                "\" nor the direction \"", q.direction,
                "\" are valid combination with the CONFIG config_layer">>
         ELSE IF q.action # "LOAD"
         THEN <<"The action \"", q.action,
                "\" is not a valid combination with the CONFIG config_layer">>
         ELSE <<"The direction \"", q.direction,
                "\" is not a valid combination with the CONFIG config_layer">>
    ELSE IF ~mysqldb_found THEN MysqldbRequired
    ELSE Pass

\* the locals main() reads from module.params
ManageLocals(q) ==
    [action |-> q.action, config_settings |-> q.config_settings,
     direction |-> q.direction, config_layer |-> q.config_layer,
     check_mode |-> q.check_mode]

manage_config_settings(q) ==
    <<q.action, q.config_settings, q.direction, q.config_layer>>

\* ' '.join(manage_config_settings) raises TypeError on a None item
JoinRaises(items) == \E i \in 1..Len(items) : items[i] = None

\* manage_config(manage_config_settings, cursor)
ManageConfig ==
    /\ family = "manage_config" /\ pc = "manage_config"
    /\ IF JoinRaises(manage_config_settings(p))
       THEN /\ result' = [changed |-> PyNone, msg |-> <<"TypeError">>,
                          failed |-> TRUE, action |-> "crash", echo |-> {}]
            /\ pc' = "done"
            /\ UNCHANGED log
       ELSE /\ execute(manage_config_settings(p))
            /\ \E ok \in BOOLEAN :
                 IF ok
                 THEN /\ result' = [result EXCEPT
                                      !.changed = PyBool(TRUE),
                                      !.action = "transfer"]
                      /\ pc' = "done"
                 ELSE fail_json(<<"unable to manage config.. ", StoreDiagnostic>>)
    /\ UNCHANGED <<family, mysqldb_found, other, tables, p, cursor, before, prev>>

----------------------------------------------------------------------------
(* The invocation: argument parsing, perform_checks, mysql_connect *)

ParamsOf(f) ==
    CASE f = "users" -> UserParams
      [] f = "scheduler" -> ScheduleParams
      [] f = "variables" -> VariableParams
      [] f = "manage_config" -> ManageParams

perform_checks(q) ==
    CASE family = "users" -> users_perform_checks(q)
      [] family = "scheduler" -> scheduler_perform_checks(q)
      [] family = "variables" -> variables_perform_checks(q)
      [] family = "manage_config" -> manage_perform_checks(q)

\* what main() keeps of module.params once it is connected
Descriptor(q) ==
    CASE family = "users" -> ProxySQLUser(q)
      [] family = "scheduler" -> ProxySQLSchedule(q)
      [] family = "variables" -> VariableLocals(q)
      [] family = "manage_config" -> ManageLocals(q)

\* the parameters of a task whose run left descriptor d, on port lp
TaskParams(d, lp) ==
    [f \in DOMAIN d \cup {"login_port"} |->
        IF f = "login_port" THEN lp ELSE d[f]]

\* the statement main() runs first once connected
FirstStep(q) ==
    CASE family = "users" ->
           IF q.state = "present" THEN "check_user_privs"
           ELSE "check_user_config_exists"
      [] family = "scheduler" -> "check_schedule_config"
      [] family = "variables" -> "get_config"
      [] family = "manage_config" -> "manage_config"

\* the module starts with parameters q: perform_checks(module)
Start(q) ==
    /\ p' = q
    /\ log' = <<>>
    /\ cursor' = None
    /\ before' = CurrentTable
    /\ IF perform_checks(q) # Pass
       THEN /\ result' = [NoResult EXCEPT !.failed = TRUE,
                                          !.msg = perform_checks(q),
                                          !.action = "invalid"]
            /\ pc' = "done"
       ELSE /\ result' = NoResult
            /\ pc' = "connect"
    /\ UNCHANGED <<family, mysqldb_found, other, tables>>

\* a new task runs the module
Invoke ==
    /\ pc = "start"
    /\ \E q \in ParamsOf(family) : Start(q)
    /\ prev' = NoPrev

\* the task of a run that reported success or changed the table runs
\* again, live this time, with nothing else touching the store in between
Reinvoke ==
    /\ pc = "done"
    /\ cursor # None
    /\ ~result.failed \/ Mutated
    /\ ~prev.valid
    /\ \E lp \in ValidPorts :
         Start([TaskParams(p, lp) EXCEPT !.check_mode = FALSE])
    /\ prev' = [valid |-> TRUE, check_mode |-> p.check_mode,
                changed |-> result.changed, failed |-> result.failed,
                mutated |-> Mutated]

\* the process ends: the parameters and the outcome are discarded, the
\* tables stay
Exit ==
    /\ pc = "done"
    /\ pc' = "start"
    /\ p' = NoParams
    /\ result' = NoResult
    /\ log' = <<>>
    /\ cursor' = None
    /\ before' = CurrentTable
    /\ prev' = NoPrev
    /\ UNCHANGED <<family, mysqldb_found, other, tables>>

\* cursor = mysql_connect(...)
Connect ==
    /\ pc = "connect"
    /\ \E ok \in BOOLEAN :
         IF ok
         THEN /\ cursor' = "cursor"
              /\ p' = Descriptor(p)
              /\ pc' = FirstStep(p)
              /\ UNCHANGED result
         ELSE /\ fail_json(ConnectError)
              /\ UNCHANGED <<cursor, p>>
    /\ UNCHANGED <<family, mysqldb_found, other, tables, log, before, prev>>

----------------------------------------------------------------------------
(* Specifications: one per module, and one over the three record families *)

InitFamily(f) ==
    /\ family = f
    /\ mysqldb_found \in BOOLEAN
    /\ mysql_users = {}
    /\ scheduler = EmptyBag
    /\ global_variables \in
         IF f = "variables" THEN [VariableNames -> StoredValues]
         ELSE {[v \in VariableNames |-> "2000"]}
    /\ p = NoParams
    /\ pc = "start"
    /\ cursor = None
    /\ result = NoResult
    /\ log = <<>>
    /\ before = CurrentTable
    /\ prev = NoPrev
    /\ other = NoOther

Common ==
    \/ Invoke
    \/ Reinvoke
    \/ Exit
    \/ Connect

UsersSteps ==
    \/ CheckUserPrivs
    \/ CheckUserConfigExists
    \/ CreateUserConfig
    \/ UpdateUserConfig
    \/ GetUserConfig
    \/ DeleteUserConfig
    \/ UsersSaveConfigToDisk
    \/ UsersLoadConfigToRuntime

SchedulerSteps ==
    \/ CheckScheduleConfig
    \/ CreateScheduleConfig
    \/ GetScheduleConfig
    \/ DeleteScheduleConfig
    \/ SchedulerSaveConfigToDisk
    \/ SchedulerLoadConfigToRuntime

VariablesSteps ==
    \/ GetConfig
    \/ CheckConfig
    \/ SetConfig
    \/ GetConfigVar
    \/ VariablesSaveConfigToDisk
    \/ VariablesLoadConfigToRuntime

NextUsers == Common \/ UsersSteps

NextScheduler == Common \/ SchedulerSteps

NextVariables == Common \/ VariablesSteps

NextManage == Common \/ ManageConfig

InitUsers == InitFamily("users")

InitScheduler == InitFamily("scheduler")

InitVariables == InitFamily("variables")

InitManage == InitFamily("manage_config")

SpecUsers == InitUsers /\ [][NextUsers]_vars

SpecScheduler == InitScheduler /\ [][NextScheduler]_vars

SpecVariables == InitVariables /\ [][NextVariables]_vars

SpecManage == InitManage /\ [][NextManage]_vars

\* the three record families
Init == InitUsers \/ InitScheduler \/ InitVariables

Next == Common \/ UsersSteps \/ SchedulerSteps \/ VariablesSteps

Spec == Init /\ [][Next]_vars

----------------------------------------------------------------------------
(* Two processes of the users module on one store.  The module takes no    *)
(* lock and opens no transaction, so the statements of two invocations     *)
(* interleave freely; each cursor.execute is one atomic step of the store. *)

\* a process that has not called main() yet
FreshProcess ==
    [pc |-> "start", p |-> NoParams, cursor |-> None, result |-> NoResult,
     log |-> <<>>, before |-> CurrentTable]

\* the tasks given to the two processes: live runs with the default
\* toggles on a valid port
RaceUserParams ==
    {q \in UserParams : /\ q.login_port = 0
                        /\ ~q.check_mode
                        /\ q.save_to_disk /\ q.load_to_runtime}

InvokeRacingUser ==
    /\ pc = "start"
    /\ \E q \in RaceUserParams : Start(q)
    /\ prev' = NoPrev

\* the scheduler of the host runs the other process
Switch ==
    /\ other.pc # "none"
    /\ p' = other.p
    /\ pc' = other.pc
    /\ cursor' = other.cursor
    /\ result' = other.result
    /\ log' = other.log
    /\ before' = other.before
    /\ other' = [pc |-> pc, p |-> p, cursor |-> cursor, result |-> result,
                 log |-> log, before |-> before]
    /\ UNCHANGED <<family, mysqldb_found, tables, prev>>

InitUsersRace ==
    /\ family = "users"
    /\ mysqldb_found = TRUE
    /\ mysql_users = {}
    /\ scheduler = EmptyBag
    /\ global_variables = [v \in VariableNames |-> "2000"]
    /\ p = NoParams
    /\ pc = "start"
    /\ cursor = None
    /\ result = NoResult
    /\ log = <<>>
    /\ before = CurrentTable
    /\ prev = NoPrev
    /\ other = FreshProcess

NextUsersRace ==
    \/ InvokeRacingUser
    \/ Connect
    \/ Switch
    \/ UsersSteps

SpecUsersRace == InitUsersRace /\ [][NextUsersRace]_vars

----------------------------------------------------------------------------
(* Two processes of the scheduler module on one store, which holds no row  *)
(* or the one row an earlier task created.                                 *)

\* the tasks given to the two processes: live runs with the default
\* toggles on a valid port
RaceScheduleParams ==
    {q \in ScheduleParams : /\ q.login_port = 0
                            /\ q.interval_ms = 100
                            /\ ~q.check_mode
                            /\ q.save_to_disk /\ q.load_to_runtime}

InvokeRacingSchedule ==
    /\ pc = "start"
    /\ \E q \in RaceScheduleParams : Start(q)
    /\ prev' = NoPrev

InitSchedulerRace ==
    /\ family = "scheduler"
    /\ mysqldb_found = TRUE
    /\ mysql_users = {}
    /\ scheduler \in {EmptyBag} \cup
          {create_schedule_config(q, EmptyBag) : q \in RaceScheduleParams}
    /\ global_variables = [v \in VariableNames |-> "2000"]
    /\ p = NoParams
    /\ pc = "start"
    /\ cursor = None
    /\ result = NoResult
    /\ log = <<>>
    /\ before = CurrentTable
    /\ prev = NoPrev
    /\ other = FreshProcess

NextSchedulerRace ==
    \/ InvokeRacingSchedule
    \/ Connect
    \/ Switch
    \/ SchedulerSteps

SpecSchedulerRace == InitSchedulerRace /\ [][NextSchedulerRace]_vars

----------------------------------------------------------------------------
(* A task with state=present that created a record, followed at once by   *)
(* the same task with state=absent (users and schedules).                  *)

\* the parameters of the task that undoes the run which left descriptor d
AbsentTaskParams(d, lp) ==
    [f \in DOMAIN TaskParams(d, lp) |->
        IF f = "state" THEN "absent"
        ELSE IF f = "force_delete" THEN FALSE
        ELSE TaskParams(d, lp)[f]]

\* the live run that created a record has ended; the same descriptor is
\* run with state=absent, with nothing else touching the store in between
InvokeAbsentAfterCreate ==
    /\ pc = "done" /\ cursor # None
    /\ family \in {"users", "scheduler"}
    /\ ~result.failed /\ result.action = "create" /\ ~p.check_mode
    /\ prev = NoPrev
    /\ \E lp \in ValidPorts : Start(AbsentTaskParams(p, lp))
    /\ prev' = [valid |-> FALSE, undoes |-> TRUE, table |-> before]

InitRoundTrip == InitUsers \/ InitScheduler

NextRoundTrip ==
    \/ Invoke
    \/ InvokeAbsentAfterCreate
    \/ Exit
    \/ Connect
    \/ UsersSteps
    \/ SchedulerSteps

SpecRoundTrip == InitRoundTrip /\ [][NextRoundTrip]_vars

----------------------------------------------------------------------------
(* The text of the generated statements.  config_data is a dict built from *)
(* the list config_data_keys; every statement takes its attribute columns  *)
(* in the order in which iteritems() walks that dict.  The order is fixed  *)
(* for one process and is the hash order of the interpreter that runs it,  *)
(* so it is a choice among the orders of the keys.                         *)

config_data_keys ==
    IF family = "users" THEN config_data_keys_users
    ELSE config_data_keys_scheduler

\* keys with the entries at i and j exchanged
Exchanged(keys, i, j) ==
    [k \in 1..Len(keys) |->
        IF k = i THEN keys[j] ELSE IF k = j THEN keys[i] ELSE keys[k]]

\* the orders offered for iteritems(): the list's own order and every
\* order that differs from it in two places
iteritems ==
    {Exchanged(config_data_keys, i, j) :
        i \in 1..Len(config_data_keys), j \in 1..Len(config_data_keys)}

\* the columns a statement names: for col, val in iteritems(): if val is
\* not None
StatementColumns(q) ==
    SelectSeq(q.iteritems, LAMBDA col : q.config_data[col] # None)

\* faulty variant of AttributeData: the values are taken in the order of
\* the declared list
AttributeData_declared_order(q) ==
    LET cols == SelectSeq(config_data_keys,
                          LAMBDA col : q.config_data[col] # None)
    IN  [i \in 1..Len(cols) |-> q.config_data[cols[i]]]

\* the values bound for them: query_data.append(val) in the same loop
AttributeData(q) ==
    [i \in 1..Len(StatementColumns(q)) |->
        q.config_data[StatementColumns(q)[i]]]

\* the key columns every statement names
KeyColumns ==
    IF family = "users" THEN <<"username", "backend", "frontend">>
    ELSE <<"active", "interval_ms", "filename">>

\* the key fields offered to a descriptor
DescriptorKeys ==
    IF family = "users" THEN UserKeys
    ELSE [active : {TRUE}, interval_ms : {100, 100000000},
          filename : Filenames]

\* query_data = [self.username, self.backend, self.frontend]
KeyData(q) ==
    IF family = "users"
    THEN <<q.key.username, q.key.backend, q.key.frontend>>
    ELSE <<q.key.active, q.key.interval_ms, q.key.filename>>

\* SELECT / DELETE ... WHERE k1 = %s AND k2 = %s AND k3 = %s, then
\* "AND col = %s" for each attribute
predicate_statement(q) ==
    [columns |-> KeyColumns \o StatementColumns(q),
     placeholders |-> 3 + Len(StatementColumns(q)),
     query_data |-> KeyData(q) \o AttributeData(q)]

\* INSERT INTO ... (k1, k2, k3, col, ...) VALUES (%s ...): users write
\* "%s ," * cols with cols counted from 3, schedules three "%s" and
\* ", %s" * cols with cols counted from 0
insert_statement(q) ==
    [columns |-> KeyColumns \o StatementColumns(q),
     placeholders |-> IF family = "users"
                      THEN Len(KeyData(q)) + Len(StatementColumns(q))
                      ELSE 3 + Len(StatementColumns(q)),
     query_data |-> KeyData(q) \o AttributeData(q)]

\* UPDATE mysql_users SET col = %s, ... WHERE k1 = %s AND k2 = %s AND
\* k3 = %s: the key values are appended after the loop
update_statement(q) ==
    [columns |-> StatementColumns(q) \o KeyColumns,
     placeholders |-> Len(StatementColumns(q)) + 3,
     query_data |-> AttributeData(q) \o KeyData(q)]

\* ProxySQLUser(module) / ProxySQLSchedule(module): the dict is built
ConstructConfigData ==
    /\ pc = "start"
    /\ \E cd \in IF family = "users" THEN UserConfigData
                 ELSE ScheduleConfigData :
         \E order \in iteritems, k \in DescriptorKeys :
            p' = [check_mode |-> FALSE, key |-> k, config_data |-> cd,
                  iteritems |-> order]
    /\ pc' = "constructed"
    /\ UNCHANGED <<family, mysqldb_found, other, tables, cursor, result, log,
                   before, prev>>

\* the WHERE clause of check_user_privs, check_schedule_config,
\* get_schedule_config and delete_schedule_config
BuildPredicate ==
    /\ pc = "constructed" /\ Len(log) < MaxStatements
    /\ log' = Append(log, <<"WHERE", StatementColumns(p), predicate_statement(p)>>)
    /\ UNCHANGED <<family, mysqldb_found, other, tables, p, pc, cursor, result,
                   before, prev>>

\* the column list of create_user_config and create_schedule_config
BuildInsert ==
    /\ pc = "constructed" /\ Len(log) < MaxStatements
    /\ log' = Append(log, <<"INSERT", StatementColumns(p), insert_statement(p)>>)
    /\ UNCHANGED <<family, mysqldb_found, other, tables, p, pc, cursor, result,
                   before, prev>>

\* the SET list of update_user_config
BuildUpdate ==
    /\ pc = "constructed" /\ family = "users" /\ Len(log) < MaxStatements
    /\ log' = Append(log, <<"SET", StatementColumns(p), update_statement(p)>>)
    /\ UNCHANGED <<family, mysqldb_found, other, tables, p, pc, cursor, result,
                   before, prev>>

\* the same task is run again by a new process, which builds its own dict
RunAgain ==
    /\ pc = "constructed"
    /\ \E order \in iteritems : p' = [p EXCEPT !.iteritems = order]
    /\ UNCHANGED <<family, mysqldb_found, other, tables, pc, cursor, result,
                   log, before, prev>>

InitColumns ==
    /\ family \in {"users", "scheduler"}
    /\ mysqldb_found = TRUE
    /\ mysql_users = {}
    /\ scheduler = EmptyBag
    /\ global_variables = [v \in VariableNames |-> "2000"]
    /\ p = NoParams
    /\ pc = "start"
    /\ cursor = None
    /\ result = NoResult
    /\ log = <<>>
    /\ before = CurrentTable
    /\ prev = NoPrev
    /\ other = NoOther

NextColumns ==
    \/ ConstructConfigData
    \/ BuildPredicate
    \/ BuildInsert
    \/ BuildUpdate
    \/ RunAgain

SpecColumns == InitColumns /\ [][NextColumns]_vars

----------------------------------------------------------------------------
(* Properties *)

Running == pc # "start"

Finished == pc = "done" /\ ~result.failed

NoMutationIssued == \A i \in 1..Len(log) : ~IsMutation(log[i])

NoPropagationIssued == \A i \in 1..Len(log) : ~IsSave(log[i]) /\ ~IsLoad(log[i])

\* users: the rows of the table at the start that carry the key of p
KeyRowsBefore ==
    {r \in before : /\ r.username = p.username
                    /\ r.backend = p.backend
                    /\ r.frontend = p.frontend}

\* users: those of them that also carry every attribute p supplies
FullRowsBefore ==
    {r \in KeyRowsBefore :
        \A c \in DOMAIN p.config_data :
            p.config_data[c] # None => r[c] = p.config_data[c]}

\* C1: users, state=present: create exactly when no row has the key
\* fields, noop exactly when a row has the key fields and every supplied
\* attribute, update in every other case; a run that ends without failure
\* has selected one of the three.
C1_PresentDecision ==
    (family = "users" /\ Running /\ p.state = "present") =>
        /\ result.action \in {"none", "invalid", "create", "update", "noop"}
        /\ Finished => result.action \in {"create", "update", "noop"}
        /\ result.action \in {"create", "update", "noop"} =>
             /\ (result.action = "create") <=> (KeyRowsBefore = {})
             /\ (result.action = "noop") <=> (FullRowsBefore # {})
             /\ (result.action = "update") <=>
                    (KeyRowsBefore # {} /\ FullRowsBefore = {})

\* C1 witness: a finished run that selected update while another row
\* of a different key is in the table
C1_Witness ==
    /\ family = "users" /\ Finished /\ p.state = "present"
    /\ result.action = "update"
    /\ Cardinality(before) = 2

\* the invocation is an "ensure present" one
EnsurePresent ==
    IF family = "variables" THEN ValueSupplied(p.value)
    ELSE p.state = "present"

\* the run repeats a live run that reported a change
RepeatsChangedLiveRun ==
    /\ prev.valid
    /\ ~prev.check_mode
    /\ ~prev.failed
    /\ prev.changed = PyBool(TRUE)

\* C2: idempotence: the live repeat of a live ensure-present run that
\* reported changed=true issues no INSERT/UPDATE/DELETE, leaves the table
\* as the first run left it and reports changed=false.
C2_Idempotent ==
    (Running /\ RepeatsChangedLiveRun /\ EnsurePresent) =>
        /\ NoMutationIssued
        /\ CurrentTable = before
        /\ Finished => result.changed = PyBool(FALSE)

\* C2 witness: the repeat of a live user update has finished
C2_Witness ==
    /\ family = "users" /\ Finished /\ RepeatsChangedLiveRun
    /\ EnsurePresent
    /\ result.action = "noop"
    /\ \E r \in before : r.password = "a" /\ r.active = "0"

\* scheduler: the number of rows at the start that carry the key fields
\* and every attribute p supplies
MatchCountBefore ==
    BagCardinality(
        [r \in {x \in DOMAIN before :
                   /\ x.active = p.active
                   /\ x.interval_ms = p.interval_ms
                   /\ x.filename = p.filename
                   /\ \A c \in DOMAIN p.config_data :
                        p.config_data[c] # None => x[c] = p.config_data[c]}
           |-> before[r]])

\* C3: scheduler, state=absent, n matching rows: n = 0 is a noop with
\* changed=false, n = 1 a delete, n > 1 without force_delete a rejection,
\* n > 1 with force_delete a delete that removes every match; nothing else.
C3_AbsentDecision ==
    (family = "scheduler" /\ Running /\ p.state = "absent") =>
        /\ result.action \in {"none", "invalid", "noop", "delete", "rejected"}
        /\ Finished => result.action \in {"noop", "delete"}
        /\ result.action \in {"noop", "delete", "rejected"} =>
             /\ MatchCountBefore = 0 =>
                    /\ result.action = "noop"
                    /\ pc = "done"
                    /\ result.changed = PyBool(FALSE) /\ ~result.failed
             /\ MatchCountBefore = 1 => result.action = "delete"
             /\ (MatchCountBefore > 1 /\ ~p.force_delete) =>
                    /\ result.action = "rejected"
                    /\ pc = "done" /\ result.failed
             /\ (MatchCountBefore > 1 /\ p.force_delete) =>
                    /\ result.action = "delete"
                    /\ Mutated =>
                         BagCardinality(scheduler) =
                             BagCardinality(before) - MatchCountBefore

\* C3 witness: a forced live delete of two matching rows has finished
C3_Witness ==
    /\ family = "scheduler" /\ Finished /\ p.state = "absent"
    /\ MatchCountBefore = 2 /\ p.force_delete
    /\ Mutated

\* C4: a rejected delete issues no DELETE, SAVE or LOAD and leaves the
\* scheduler table as it was, in live and in check mode.
C4_RejectionIsPure ==
    (family = "scheduler" /\ Running /\ result.action = "rejected") =>
        /\ NoMutationIssued
        /\ NoPropagationIssued
        /\ scheduler = before
        /\ pc = "done" /\ result.failed

\* C4 witness: a live delete with both toggles set was rejected
C4_Witness ==
    /\ family = "scheduler" /\ pc = "done" /\ result.action = "rejected"
    /\ ~p.check_mode /\ p.save_to_disk /\ p.load_to_runtime
    /\ MatchCountBefore = 2

\* C5 (as claimed): a check-mode run issues no INSERT, UPDATE or DELETE,
\* and the changed value it reports is the changed value the live run of
\* the same task reports from the same table.
C5_DryRunPurity ==
    /\ (Running /\ p.check_mode) => (NoMutationIssued /\ CurrentTable = before)
    /\ (Running /\ prev.valid /\ prev.check_mode /\ ~prev.failed /\ Finished)
           => result.changed = prev.changed

\* C6: SAVE ... TO DISK comes before LOAD ... TO RUNTIME, both come after
\* the mutating statement, and a live run that mutated with both toggles
\* set issues both.
C6_PropagationOrder ==
    Running =>
        /\ \A j, k \in 1..Len(log) :
              (IsSave(log[j]) /\ IsLoad(log[k])) => j < k
        /\ \A j \in 1..Len(log) :
              (IsSave(log[j]) \/ IsLoad(log[j])) =>
                  \E i \in 1..(j - 1) : IsMutation(log[i])
        /\ (Finished /\ Mutated /\ p.save_to_disk /\ p.load_to_runtime) =>
              \E i, j, k \in 1..Len(log) :
                  /\ i < j /\ j < k
                  /\ IsMutation(log[i]) /\ IsSave(log[j]) /\ IsLoad(log[k])

\* C6 witness: a live variable update with both toggles set has finished
C6_Witness ==
    /\ family = "variables" /\ Finished /\ Mutated
    /\ p.save_to_disk /\ p.load_to_runtime

\* C7: after a successful live mutation and without a store error, SAVE
\* is issued exactly when save_to_disk is set and LOAD exactly when
\* load_to_runtime is set.
C7_IndependentToggles ==
    (Running /\ Finished /\ Mutated) =>
        /\ Issued(IsSave) <=> p.save_to_disk
        /\ Issued(IsLoad) <=> p.load_to_runtime

\* C7 witness: a live schedule delete finished with load_to_runtime alone
C7_Witness ==
    /\ family = "scheduler" /\ Finished /\ Mutated
    /\ ~p.save_to_disk /\ p.load_to_runtime
    /\ result.action = "delete"

\* C8: no SAVE and no LOAD without a successful mutation by the same
\* run: not on a noop, a rejection, a not-found, a lookup or in check mode.
C8_PropagationNeedsMutation ==
    Running =>
        /\ ~Mutated => NoPropagationIssued
        /\ result.action \in {"noop", "rejected", "not_found", "lookup",
                              "invalid", "none"} => NoPropagationIssued
        /\ p.check_mode => NoPropagationIssued

\* C8 witness: a check-mode user create with both toggles set has finished
C8_Witness ==
    /\ family = "users" /\ Finished /\ p.check_mode
    /\ result.action = "create"
    /\ p.save_to_disk /\ p.load_to_runtime

\* the login_port of a run that has not connected yet is in range
PortInRange ==
    "login_port" \in DOMAIN p /\ p.login_port >= 0 /\ p.login_port <= 65535

\* C9: with config_layer CONFIG a request passes perform_checks exactly
\* when it is LOAD FROM; a rejected request opened no connection and
\* issued no command.
C9_LayerLegality ==
    (family = "manage_config" /\ Running /\ p.config_layer = "CONFIG") =>
        /\ (p.action = "LOAD" /\ p.direction = "FROM"
                /\ PortInRange /\ mysqldb_found)
              => result.action # "invalid"
        /\ ~(p.action = "LOAD" /\ p.direction = "FROM")
              => /\ result.action = "invalid"
                 /\ pc = "done" /\ result.failed
        /\ result.action = "invalid" => (cursor = None /\ log = <<>>)

\* C9 witness: SAVE FROM CONFIG on a port in range was rejected
C9_Witness ==
    /\ family = "manage_config" /\ pc = "done"
    /\ p.config_layer = "CONFIG" /\ p.action = "SAVE" /\ p.direction = "FROM"
    /\ PortInRange /\ mysqldb_found
    /\ result.action = "invalid"

\* the message names the action: an "action" label followed by its value
NamesAction(m) ==
    \E i \in 1..(Len(m) - 1) :
        /\ m[i] \in {"The action \"", "Neither the action \""}
        /\ m[i + 1] = p.action

\* the message names the direction
NamesDirection(m) ==
    \E i \in 1..(Len(m) - 1) :
        /\ m[i] \in {"The direction \"", "\" nor the direction \""}
        /\ m[i + 1] = p.direction

\* C10: the rejection message of an illegal CONFIG combination names the
\* action alone for SAVE FROM, the direction alone for LOAD TO and both
\* for SAVE TO.
C10_RejectionMessage ==
    (family = "manage_config" /\ Running /\ p.config_layer = "CONFIG"
         /\ PortInRange /\ result.action = "invalid") =>
        /\ NamesAction(result.msg) <=> p.action # "LOAD"
        /\ NamesDirection(result.msg) <=> p.direction # "FROM"

\* C10 witness: SAVE TO CONFIG was rejected with a message naming both
C10_Witness ==
    /\ family = "manage_config" /\ pc = "done"
    /\ p.config_layer = "CONFIG" /\ p.action = "SAVE" /\ p.direction = "TO"
    /\ PortInRange
    /\ NamesAction(result.msg) /\ NamesDirection(result.msg)

\* C11 (as claimed): a bulk-transfer request that passed perform_checks
\* and met no connection or store error issues exactly one command, the
\* four values in the order action, config_settings, direction,
\* config_layer, and reports changed=true.
C11_BulkTransfer ==
    (family = "manage_config" /\ pc = "done" /\ cursor # None
         /\ result.action \in {"transfer", "crash"}) =>
        /\ Len(log) = 1
        /\ log[1] = <<p.action, p.config_settings, p.direction, p.config_layer>>
        /\ result.changed = PyBool(TRUE)
        /\ ~result.failed

\* the values column col of a stored user can hold
StoredUserValues(col) ==
    {UserDefault[col]} \cup ({c[col] : c \in UserConfigData} \ {None})

\* the values column col of a stored schedule can hold
StoredScheduleValues(col) ==
    {ScheduleDefault[col]} \cup ({c[col] : c \in ScheduleConfigData} \ {None})

\* C12: sparse matching: when the descriptor leaves attribute X out, the
\* action an ensure-present run selects is the action it selects on every
\* table that differs from this one in column X of one row alone (users
\* and schedules).
C12_SparseMatch ==
    (Running /\ family \in {"users", "scheduler"} /\ p.state = "present"
         /\ result.action \in {"create", "update", "noop"}) =>
        \A col \in DOMAIN p.config_data :
            p.config_data[col] = None =>
                IF family = "users"
                THEN \A r \in before : \A v \in StoredUserValues(col) :
                        present_action_users(
                            p, (before \ {r}) \cup {[r EXCEPT ![col] = v]})
                        = result.action
                ELSE \A r \in DOMAIN before :
                     \A v \in StoredScheduleValues(col) :
                        present_action_scheduler(
                            p, (before (-) SetToBag({r}))
                                 (+) SetToBag({[r EXCEPT ![col] = v]}))
                        = result.action

\* C12 witness: a user run without password is a noop on a row whose
\* password is set
C12_Witness ==
    /\ family = "users" /\ Finished /\ p.state = "present"
    /\ result.action = "noop"
    /\ p.config_data["password"] = None
    /\ \E r \in KeyRowsBefore : r.password = "a"

\* users, state=absent: a row has the key of p and none has every
\* supplied attribute as well
KeyRowDiffersInAttribute == KeyRowsBefore # {} /\ FullRowsBefore = {}

\* C13 (as claimed): users, state=absent, when a stored user has the key
\* fields but differs in a supplied attribute: the run is a noop with
\* changed=false and the row is not deleted.
C13_FullPredicateDelete ==
    (family = "users" /\ Running /\ p.state = "absent"
         /\ KeyRowDiffersInAttribute
         /\ result.action \in {"noop", "delete"}) =>
        /\ result.action = "noop"
        /\ mysql_users = before
        /\ Finished => result.changed = PyBool(FALSE)

\* C13 (amended): users, state=absent decides and deletes on the key
\* fields alone: a stored user with the key fields is selected for delete
\* whatever its attributes, the run reports changed=true, and a live run
\* removes exactly the rows with the key fields.
C13_KeyOnlyDelete ==
    (family = "users" /\ Running /\ p.state = "absent"
         /\ result.action \in {"noop", "delete"}) =>
        /\ (result.action = "delete") <=> (KeyRowsBefore # {})
        /\ (Finished /\ result.action = "delete") =>
              /\ result.changed = PyBool(TRUE)
              /\ ~p.check_mode => mysql_users = before \ KeyRowsBefore
        /\ (Finished /\ result.action = "noop") =>
              /\ result.changed = PyBool(FALSE)
              /\ mysql_users = before

\* C13 witness: a live delete removed a user whose stored password
\* differs from the supplied one
C13_Witness ==
    /\ family = "users" /\ Finished /\ p.state = "absent" /\ ~p.check_mode
    /\ KeyRowDiffersInAttribute
    /\ result.action = "delete"
    /\ mysql_users = before \ KeyRowsBefore

\* scheduler: the number of rows of bag rows that carry the key fields of p
KeyCount(rows) ==
    BagCardinality(
        [r \in {x \in DOMAIN rows : /\ x.active = p.active
                                    /\ x.interval_ms = p.interval_ms
                                    /\ x.filename = p.filename}
           |-> rows[r]])

\* C14 (as claimed): schedules, state=present, when a row has the key
\* fields but none has every supplied attribute: the run selects update
\* and adds no second row with the key fields.
C14_ScheduleUpdate ==
    (family = "scheduler" /\ Running /\ p.state = "present"
         /\ KeyCount(before) > 0 /\ MatchCountBefore = 0
         /\ result.action \in {"create", "update", "noop"}) =>
        /\ result.action = "update"
        /\ KeyCount(scheduler) = KeyCount(before)

\* C14 (amended): schedules have no update: state=present selects create
\* exactly when no row has the key fields and every supplied attribute,
\* noop otherwise; a live create adds one row and leaves every stored row
\* as it was, so a row with the same key fields and other attributes
\* gets a second row beside it.
C14_ScheduleCreatesBeside ==
    (family = "scheduler" /\ Running /\ p.state = "present") =>
        /\ result.action \in {"none", "invalid", "create", "noop"}
        /\ result.action \in {"create", "noop"} =>
              ((result.action = "create") <=> (MatchCountBefore = 0))
        /\ (Finished /\ result.action = "create" /\ ~p.check_mode) =>
              /\ BagCardinality(scheduler) = BagCardinality(before) + 1
              /\ KeyCount(scheduler) = KeyCount(before) + 1
              /\ \A r \in DOMAIN before :
                    r \in DOMAIN scheduler /\ scheduler[r] >= before[r]

\* C14 witness: a live create finished beside a row with the same key
\* fields and another arg1
C14_Witness ==
    /\ family = "scheduler" /\ Finished /\ p.state = "present"
    /\ ~p.check_mode /\ result.action = "create"
    /\ KeyCount(before) = 1 /\ MatchCountBefore = 0
    /\ KeyCount(scheduler) = 2

\* variables: a value is supplied and the table at the start has no row
\* for the variable
SetOfMissingVariable ==
    /\ family = "variables" /\ Running
    /\ ValueSupplied(p.value)
    /\ p.variable \notin DOMAIN before

\* C15 (as claimed): variables, a value is supplied and no row has the
\* variable name: the run selects create.
C15_VariableCreate ==
    (SetOfMissingVariable
         /\ result.action \in {"create", "update", "noop", "not_found"}) =>
        result.action = "create"

\* C15 (amended): variables, a value is supplied and no row has the
\* variable name: the run ends with the not-found failure naming the
\* variable after its first SELECT, selects no action, issues no INSERT,
\* UPDATE, SAVE or LOAD and leaves the table as it was, live or not.
C15_VariableNotFound ==
    SetOfMissingVariable =>
        /\ result.action \in {"none", "invalid", "not_found"}
        /\ NoMutationIssued /\ NoPropagationIssued
        /\ global_variables = before
        /\ pc = "done" => result.failed
        /\ result.action = "not_found" =>
              /\ pc = "done" /\ result.failed
              /\ result.msg = <<"The variable \"", p.variable,
                                "\" was not found">>
              /\ log = <<"SELECT">>
        /\ (pc = "done" /\ log = <<"SELECT">>
               /\ result.msg # <<"unable to set config.. ", StoreDiagnostic>>)
              => result.action = "not_found"

\* C15 witness: a live set of an unknown variable ended not-found
C15_Witness ==
    /\ SetOfMissingVariable /\ pc = "done" /\ ~p.check_mode
    /\ result.action = "not_found"
    /\ p.save_to_disk /\ p.load_to_runtime

\* C16 (as claimed): variables, the variable exists and a value v is
\* given: when the stored value differs from v a live run selects update,
\* reports changed=true, returns the record with variable_value = v and
\* leaves every other variable as it was; when the stored value is v the
\* run is a noop with changed=false and issues no UPDATE.
C16_SetVariable ==
    (family = "variables" /\ Running /\ p.value # None
         /\ p.variable \in DOMAIN before
         /\ result.action \in {"update", "noop", "lookup", "not_found"}) =>
        /\ before[p.variable] # p.value =>
              /\ result.action = "update"
              /\ (Finished /\ ~p.check_mode) =>
                    /\ result.changed = PyBool(TRUE)
                    /\ result.echo = {[variable_name |-> p.variable,
                                       variable_value |-> p.value]}
                    /\ \A v \in DOMAIN before :
                          v # p.variable => global_variables[v] = before[v]
        /\ before[p.variable] = p.value =>
              /\ result.action = "noop"
              /\ NoMutationIssued
              /\ Finished => result.changed = PyBool(FALSE)

\* C17: variables, no value given: the run is a read-only lookup: no
\* UPDATE, SAVE or LOAD and the table stays as it was; when the variable
\* exists it ends with changed=false and the current record, when it does
\* not it ends with the not-found failure.
C17_Lookup ==
    (family = "variables" /\ Running /\ p.value = None) =>
        /\ NoMutationIssued /\ NoPropagationIssued
        /\ global_variables = before
        /\ result.action \in {"none", "invalid", "lookup", "not_found"}
        /\ result.action = "lookup" => p.variable \in DOMAIN before
        /\ result.action = "not_found" =>
              /\ p.variable \notin DOMAIN before
              /\ pc = "done" /\ result.failed
              /\ result.msg = <<"The variable \"", p.variable,
                                "\" was not found">>
        /\ Finished =>
              /\ result.action = "lookup"
              /\ result.changed = PyBool(FALSE)
              /\ result.echo = {[variable_name |-> p.variable,
                                 variable_value |-> before[p.variable]]}
        /\ (pc = "done" /\ log = <<"SELECT">>
               /\ result.msg # <<"unable to get config.. ", StoreDiagnostic>>)
              => (result.action = "not_found"
                     /\ p.variable \notin DOMAIN before)

\* C17 witness: a live lookup with both toggles set has finished
C17_Witness ==
    /\ family = "variables" /\ Finished /\ p.value = None
    /\ ~p.check_mode /\ p.save_to_disk /\ p.load_to_runtime
    /\ result.action = "lookup"
    /\ log = <<"SELECT", "SELECT">>

\* the run ended in failure on its SAVE or its LOAD
PropagationFailed ==
    /\ Running /\ pc = "done" /\ result.failed
    /\ Len(log) >= 1
    /\ IsSave(log[Len(log)]) \/ IsLoad(log[Len(log)])

\* the table as the mutating statement of the selected action leaves it
TableAfterMutation ==
    CASE family = "users" /\ result.action = "create" ->
           create_user_config(p, before)
      [] family = "users" /\ result.action = "update" ->
           update_user_config(p, before)
      [] family = "users" /\ result.action = "delete" ->
           delete_user_config(p, before)
      [] family = "scheduler" /\ result.action = "create" ->
           create_schedule_config(p, before)
      [] family = "scheduler" /\ result.action = "delete" ->
           delete_schedule_config(p, before)
      [] family = "variables" /\ result.action = "update" ->
           set_config(p.variable, p.value, before)
      [] OTHER -> before

\* the store-error message of the family's main()
StageMessage ==
    CASE family = "users" -> UserStoreError(p)
      [] family = "scheduler" -> ScheduleStoreError(p)
      [] family = "variables" -> VariableStoreError(p)

\* C18: when the mutating statement succeeded and the SAVE or the LOAD
\* after it fails, the run ends with a failure message, the table keeps
\* the mutation, and no further INSERT, UPDATE or DELETE is issued.
C18_NoRollback ==
    PropagationFailed =>
        /\ result.msg = StageMessage
        /\ result.action \in {"create", "update", "delete"}
        /\ Cardinality({i \in 1..Len(log) : IsMutation(log[i])}) = 1
        /\ CurrentTable = TableAfterMutation
        /\ CurrentTable # before

\* C18 witness: a user update went through and its LOAD failed
C18_Witness ==
    /\ PropagationFailed /\ family = "users"
    /\ result.action = "update"
    /\ IsLoad(log[Len(log)])
    /\ mysql_users # before

\* the stage a statement belongs to
StageOf(s) ==
    IF IsMutation(s) THEN "write"
    ELSE IF IsSave(s) \/ IsLoad(s) THEN "propagate"
    ELSE "read"

\* the run ended on a store error (not on a rejection or a not-found)
StoreErrorEnded ==
    /\ Running /\ pc = "done" /\ result.failed
    /\ result.action \notin {"invalid", "rejected", "not_found"}

\* the stage the store error was raised at
FailedStage ==
    IF cursor = None THEN "connect" ELSE StageOf(log[Len(log)])

\* the message the run would have ended with had the store error been
\* raised at a statement of stage st
MessageAt(st) == IF st = "connect" THEN ConnectError ELSE StageMessage

\* the stages the run went through before the one that failed
EarlierStages ==
    IF cursor = None THEN {}
    ELSE {"connect"} \cup {StageOf(log[i]) : i \in 1..(Len(log) - 1)}

\* C19 (as claimed): the failure message tells the stage: a store error
\* at another stage of the same run (connect, read, write, propagate)
\* would have produced a different message.
C19_StageInMessage ==
    StoreErrorEnded =>
        \A st \in EarlierStages \ {FailedStage} : MessageAt(st) # result.msg

\* C19 (amended): the failure message tells a connection error from an
\* error of a later statement and the state=present branch from the
\* state=absent one (get from set for variables); store errors at the
\* read, write and propagate stages of one run carry the same message.
C19_ConnectOrBranchInMessage ==
    StoreErrorEnded =>
        /\ result.msg # <<>>
        /\ FailedStage = "connect" <=> result.msg = ConnectError
        /\ FailedStage # "connect" =>
              /\ result.msg = StageMessage
              /\ result.msg[1] =
                    CASE family = "users" /\ p.state = "present" ->
                           "unable to modify user.. "
                      [] family = "users" /\ p.state = "absent" ->
                           "unable to remove user.. "
                      [] family = "scheduler" /\ p.state = "present" ->
                           "unable to modify schedule.. "
                      [] family = "scheduler" /\ p.state = "absent" ->
                           "unable to remove schedule.. "
                      [] family = "variables" /\ ~ValueSupplied(p.value) ->
                           "unable to get config.. "
                      [] OTHER -> "unable to set config.. "

\* C19 witness: a SAVE failed after a read and a write, with the message
\* a failed read carries
C19_Witness ==
    /\ StoreErrorEnded /\ FailedStage = "propagate"
    /\ {"read", "write"} \subseteq EarlierStages
    /\ result.msg = MessageAt("read")
    /\ result.msg = MessageAt("write")

\* two tasks name the same user key
SameUserKey(a, b) ==
    /\ a.username = b.username
    /\ a.backend = b.backend
    /\ a.frontend = b.frontend

IssuedInsert(l) == \E i \in 1..Len(l) : l[i] = "INSERT"

\* both processes have ended and both issued an INSERT for one user key
BothInserted ==
    /\ pc = "done" /\ other.pc = "done"
    /\ IssuedInsert(log) /\ IssuedInsert(other.log)
    /\ SameUserKey(p, other.p)

\* C20: two concurrent state=present runs for one user key: in every
\* interleaving the table holds at most one row per key; when both issued
\* the INSERT, one of them at least ended in failure, and a run that ended
\* on its refused INSERT reports the failure and no changed=true.
C20_InsertRace ==
    /\ \A r1, r2 \in mysql_users : SameUserKey(r1, r2) => r1 = r2
    /\ BothInserted => (result.failed \/ other.result.failed)
    /\ (pc = "done" /\ Len(log) >= 1 /\ log[Len(log)] = "INSERT"
          /\ result.failed) =>
          /\ result.changed = PyNone
          /\ result.msg = <<"unable to modify user.. ", StoreDiagnostic>>
    /\ (pc = "done" /\ IssuedInsert(log) /\ ~result.failed) =>
          result.changed = PyBool(TRUE)

\* C20 witness: both runs read the key as absent and issued the INSERT;
\* this one went through, the other one's was refused
C20_Witness ==
    /\ BothInserted
    /\ ~result.failed /\ result.changed = PyBool(TRUE)
    /\ other.result.failed
    /\ other.log[Len(other.log)] = "INSERT"
    /\ \A r \in before \cup other.before : ~SameUserKey(r, p)
    /\ Cardinality({r \in mysql_users : SameUserKey(r, p)}) = 1

\* the number of rows at the start that state=absent counts: rows with
\* the key fields for users, rows with the key fields and every supplied
\* attribute for schedules
AbsentCountBefore ==
    IF family = "users" THEN Cardinality(KeyRowsBefore)
    ELSE MatchCountBefore

\* a check-mode state=absent run has taken its decision
DryRunAbsentDecided ==
    /\ Running /\ family \in {"users", "scheduler"}
    /\ p.state = "absent" /\ p.check_mode
    /\ result.action \in {"noop", "delete", "rejected"}

\* C21 (as claimed): a check-mode state=absent run that finds n >= 1
\* matching rows reports changed=true and issues no DELETE, for every
\* n >= 1 and either value of force_delete.
C21_DryRunAbsent ==
    (DryRunAbsentDecided /\ AbsentCountBefore >= 1) =>
        /\ NoMutationIssued
        /\ pc = "done" /\ ~result.failed
        /\ result.changed = PyBool(TRUE)

\* C21 (amended): a check-mode state=absent run that finds n >= 1
\* matching rows issues no DELETE and leaves the table as it was; it
\* reports changed=true when n = 1 or force_delete is set, and is
\* rejected, as the live run is, when n > 1 and force_delete is unset.
C21_DryRunAbsentOrRejected ==
    (DryRunAbsentDecided /\ AbsentCountBefore >= 1) =>
        /\ NoMutationIssued /\ NoPropagationIssued
        /\ CurrentTable = before
        /\ pc = "done"
        /\ IF family = "scheduler" /\ AbsentCountBefore > 1
              /\ ~p.force_delete
           THEN result.action = "rejected" /\ result.failed
           ELSE /\ result.action = "delete"
                /\ ~result.failed
                /\ result.changed = PyBool(TRUE)

\* C21 witness: a check-mode forced delete of two matching schedules
C21_Witness ==
    /\ DryRunAbsentDecided /\ family = "scheduler"
    /\ AbsentCountBefore = 2 /\ p.force_delete
    /\ Finished /\ result.changed = PyBool(TRUE)

\* the run still holds module.params and one of them is out of range
OutOfRange ==
    /\ Running /\ "login_port" \in DOMAIN p
    /\ \/ p.login_port < 0 \/ p.login_port > 65535
       \/ family = "scheduler"
            /\ (p.interval_ms < 100 \/ p.interval_ms > 100000000)

\* the run still holds module.params and every one is on a bound
OnBounds ==
    /\ Running /\ "login_port" \in DOMAIN p
    /\ p.login_port \in {0, 65535}
    /\ family = "scheduler" => p.interval_ms \in {100, 100000000}

\* C22: a login_port outside 0..65535, or for schedules an interval_ms
\* outside 100..100000000, is rejected before mysql_connect and before any
\* statement; the bounds 0, 65535, 100 and 100000000 pass.
C22_ValidationFirst ==
    /\ OutOfRange =>
          /\ pc = "done" /\ result.failed /\ result.action = "invalid"
          /\ cursor = None /\ log = <<>>
          /\ CurrentTable = before
          /\ result.msg \in
                {PortError, <<"interval_ms must between 100ms & 100000000ms">>}
    /\ (OnBounds /\ mysqldb_found) => result.action # "invalid"
    /\ (Running /\ (cursor # None \/ log # <<>>) /\ family = "scheduler") =>
          (p.interval_ms >= 100 /\ p.interval_ms <= 100000000)
    /\ (Running /\ pc = "connect") =>
          (p.login_port >= 0 /\ p.login_port <= 65535)

\* C22 witness: a schedule on the highest port with an interval one above
\* the bound was rejected
C22_Witness ==
    /\ OutOfRange /\ family = "scheduler" /\ pc = "done"
    /\ p.login_port = 65535 /\ p.interval_ms = 100000001
    /\ result.action = "invalid" /\ cursor = None

\* the propagation commands of the run, in the order issued
PropagationIssued == SelectSeq(log, LAMBDA s : IsSave(s) \/ IsLoad(s))

AddressesAdmin(s) ==
    s \in {"SAVE ADMIN VARIABLES TO DISK", "LOAD ADMIN VARIABLES TO RUNTIME"}

AddressesMysql(s) ==
    s \in {"SAVE MYSQL VARIABLES TO DISK", "LOAD MYSQL VARIABLES TO RUNTIME"}

\* C23: every propagation command of a global-variable run addresses the
\* ADMIN VARIABLES when the name begins with "admin" and the MYSQL VARIABLES
\* otherwise, so the save and the load of one run address the same family.
C23_PropagationFamily ==
    (family = "variables" /\ Running) =>
        /\ \A i \in 1..Len(PropagationIssued) :
              IF Len(p.variable) >= 5 /\ p.variable[1] = "a"
                 /\ p.variable[2] = "d" /\ p.variable[3] = "m"
                 /\ p.variable[4] = "i" /\ p.variable[5] = "n"
              THEN AddressesAdmin(PropagationIssued[i])
              ELSE AddressesMysql(PropagationIssued[i])
        /\ \A i, j \in 1..Len(PropagationIssued) :
              AddressesAdmin(PropagationIssued[i])
                  <=> AddressesAdmin(PropagationIssued[j])

\* C23 witness: a run on an admin variable saved and loaded the admin family
C23_Witness ==
    /\ family = "variables" /\ Finished
    /\ p.variable = AdminVariable
    /\ PropagationIssued =
          <<"SAVE ADMIN VARIABLES TO DISK", "LOAD ADMIN VARIABLES TO RUNTIME">>

\* the DELETE of a live ensure-absent run was carried out
LiveDeleteDone ==
    /\ Running /\ family \in {"users", "scheduler"}
    /\ p.state = "absent" /\ ~p.check_mode
    /\ result.action = "delete" /\ Mutated

\* C24: after the DELETE of a live ensure-absent run the record(s) the
\* outcome carries (a failure carries a message and no record) are exactly
\* the rows the run removed, and no row that the DELETE's predicate selects
\* is left (users: the key fields; schedules: the key fields and every
\* supplied attribute).
C24_EchoIsRemoved ==
    LiveDeleteDone =>
        IF family = "users"
        THEN /\ ~result.failed => result.echo = before \ mysql_users
             /\ mysql_users \subseteq before
             /\ ~\E r \in mysql_users :
                    /\ r.username = p.username
                    /\ r.backend = p.backend
                    /\ r.frontend = p.frontend
        ELSE /\ ~result.failed => result.echo = before (-) scheduler
             /\ scheduler \sqsubseteq before
             /\ ~\E r \in DOMAIN scheduler :
                    /\ r.active = p.active
                    /\ r.interval_ms = p.interval_ms
                    /\ r.filename = p.filename
                    /\ \A c \in DOMAIN p.config_data :
                         p.config_data[c] # None => r[c] = p.config_data[c]

\* C24 witness: a schedule delete removed one of two rows and echoed it
C24_Witness ==
    /\ LiveDeleteDone /\ family = "scheduler" /\ Finished
    /\ BagCardinality(before) = 2 /\ BagCardinality(scheduler) = 1
    /\ BagCardinality(result.echo) = 1

\* the UPDATE of a live ensure-present run on users was carried out
LiveUpdateDone ==
    /\ Running /\ family = "users"
    /\ p.state = "present" /\ ~p.check_mode
    /\ result.action = "update" /\ Mutated

\* row s is row r with the attributes p supplies written over it
UpdatedFrom(s, r) ==
    /\ s.username = r.username /\ s.backend = r.backend
    /\ s.frontend = r.frontend
    /\ \A c \in DOMAIN p.config_data :
         IF p.config_data[c] # None THEN s[c] = p.config_data[c]
         ELSE s[c] = r[c]

\* C25: after the UPDATE of a live run on users every row that had the key
\* fields holds the supplied attributes and keeps its key fields and its
\* other attributes, every row with another key is as it was, and no row
\* came or went.
C25_UpdateFrame ==
    LiveUpdateDone =>
        /\ Cardinality(mysql_users) = Cardinality(before)
        /\ \A r \in before :
             IF r.username = p.username /\ r.backend = p.backend
                /\ r.frontend = p.frontend
             THEN \E s \in mysql_users : UpdatedFrom(s, r)
             ELSE r \in mysql_users

\* C25 witness: an update wrote one attribute over a row that keeps a
\* non-default value in another, beside a row with another key
C25_Witness ==
    /\ LiveUpdateDone /\ Finished
    /\ p.config_data["password"] = None /\ p.config_data["active"] = "0"
    /\ \E r \in before :
          /\ r.username = p.username /\ r.backend = p.backend
          /\ r.frontend = p.frontend
          /\ r.password = "a" /\ r.active = "1"
    /\ Cardinality(before) = 2

\* the DELETE of a live ensure-absent run on schedules was carried out
LiveScheduleDeleteDone ==
    /\ Running /\ family = "scheduler"
    /\ p.state = "absent" /\ ~p.check_mode
    /\ result.action = "delete" /\ Mutated

\* row x carries the key fields and every attribute p supplies
SelectedByDelete(x) ==
    /\ x.active = p.active
    /\ x.interval_ms = p.interval_ms
    /\ x.filename = p.filename
    /\ \A c \in DOMAIN p.config_data :
         p.config_data[c] # None => x[c] = p.config_data[c]

\* the table a schedule DELETE leaves: every selected row gone, every
\* other row with the copies it had
ScheduleDeleteFrame ==
    /\ DOMAIN scheduler = {x \in DOMAIN before : ~SelectedByDelete(x)}
    /\ \A x \in DOMAIN scheduler : scheduler[x] = before[x]

\* C26 (as claimed): a live schedule delete removes exactly the rows with
\* the key fields and every supplied attribute, leaves every other row as
\* it was, and the finished run reports changed = true.
C26_ScheduleDeleteFrame ==
    LiveScheduleDeleteDone =>
        /\ ScheduleDeleteFrame
        /\ Finished => result.changed = PyBool(TRUE)

\* the INSERT of a live ensure-present run was carried out
LiveCreateDone ==
    /\ Running /\ family \in {"users", "scheduler"}
    /\ p.state = "present" /\ ~p.check_mode
    /\ result.action = "create" /\ Mutated

\* row s holds p's key fields, p's value in every attribute p supplies and
\* the store's default in every attribute the INSERT does not name
CreatedRow(s) ==
    /\ IF family = "users"
       THEN /\ s.username = p.username /\ s.backend = p.backend
            /\ s.frontend = p.frontend
       ELSE /\ s.active = p.active /\ s.interval_ms = p.interval_ms
            /\ s.filename = p.filename
    /\ \A c \in DOMAIN p.config_data :
         IF p.config_data[c] # None THEN s[c] = p.config_data[c]
         ELSE s[c] = IF family = "users" THEN UserDefault[c]
                     ELSE ScheduleDefault[c]

\* C27: after the INSERT of a live run (users, schedules) the table is the
\* table of the start plus exactly one row, and that row holds the
\* descriptor's key fields and supplied attributes and the column default
\* wherever the descriptor supplies nothing.
C27_CreateFrame ==
    LiveCreateDone =>
        IF family = "users"
        THEN /\ before \subseteq mysql_users
             /\ Cardinality(mysql_users \ before) = 1
             /\ \A s \in mysql_users \ before : CreatedRow(s)
        ELSE /\ before \sqsubseteq scheduler
             /\ BagCardinality(scheduler (-) before) = 1
             /\ \A s \in DOMAIN (scheduler (-) before) : CreatedRow(s)

\* C27 witness: a user was created with one attribute supplied and one
\* left out, beside a row that was there before
C27_Witness ==
    /\ LiveCreateDone /\ family = "users" /\ Finished
    /\ p.config_data["password"] = "a" /\ p.config_data["active"] = None
    /\ Cardinality(before) = 1 /\ Cardinality(mysql_users) = 2

\* the mutating statements of the run so far
MutationsIssued == SelectSeq(log, IsMutation)

\* at most one INSERT, UPDATE or DELETE, and none after a SAVE or a LOAD
OneMutationFirst ==
    Running =>
        /\ Len(MutationsIssued) <= 1
        /\ \A i, j \in 1..Len(log) :
              (IsMutation(log[i]) /\ (IsSave(log[j]) \/ IsLoad(log[j])))
                  => i < j
        /\ result.failed => pc = "done"

\* a run that has failed issues nothing more: the statements on record
\* stay as they are until the next run starts with none
NothingAfterFailure ==
    (Running /\ result.failed) => (log' = log \/ log' = <<>>)

\* C28: every run of the three record families issues at most one
\* mutating statement, issues it before any propagation command, and
\* issues no statement after a failure.
C28_OneMutation == []OneMutationFirst /\ [][NothingAfterFailure]_vars

\* C28 witness: a run failed on a propagation command after its one
\* mutating statement
C28_Witness ==
    /\ Running /\ result.failed /\ Len(MutationsIssued) = 1
    /\ Len(log) >= 2 /\ IsSave(log[Len(log)])

\* the attribute columns in the order of the declared list
DeclaredColumns ==
    SelectSeq(config_data_keys, LAMBDA col : p.config_data[col] # None)

\* C29 (as claimed): for a fixed descriptor every generated predicate,
\* INSERT column list and UPDATE SET list names the supplied attribute
\* columns in the order of the declared key list, so the same text is
\* generated on every run.
C29_DeclaredOrder ==
    pc = "constructed" =>
        /\ \A i \in 1..Len(log) : log[i][2] = DeclaredColumns
        /\ \A i, j \in 1..Len(log) :
              log[i][1] = log[j][1] => log[i][2] = log[j][2]

\* C30 (as claimed): in every interleaving, the DELETE of a schedule
\* ensure-absent run that has force_delete unset removes at most one row.
C30_DeleteAtMostOne ==
    (family = "scheduler" /\ Running /\ p.state = "absent"
         /\ ~p.force_delete /\ result.changed.kind = "tuple") =>
        result.changed.rowcount <= 1

\* the descriptor supplies at least one attribute
SomeAttributePresent ==
    \E c \in DOMAIN p.config_data : p.config_data[c] # None

\* C31 (as claimed): in every interleaving of users runs, the update
\* action is selected, and an UPDATE issued, only for a descriptor that
\* supplies at least one attribute.
C31_UpdateHasSetColumn ==
    (family = "users" /\ Running /\ "config_data" \in DOMAIN p) =>
        /\ result.action = "update" => SomeAttributePresent
        /\ (\E i \in 1..Len(log) : log[i] = "UPDATE") => SomeAttributePresent

\* the run under way repeats, live and on the same descriptor, a live run
\* that mutated the table and then failed
RetryAfterLostPropagation ==
    /\ Running /\ cursor # None
    /\ prev.valid /\ prev.failed /\ prev.mutated /\ ~prev.check_mode

\* C32: a run whose mutation went through and whose SAVE or LOAD failed
\* is repeated on the same descriptor: the repeat issues no mutating
\* statement, no SAVE and no LOAD, leaves the table as it found it, and
\* when it ends without failure it is a noop with changed = false.
C32_RetryDoesNotPropagate ==
    RetryAfterLostPropagation =>
        /\ NoMutationIssued /\ NoPropagationIssued
        /\ CurrentTable = before
        /\ result.action \in {"none", "noop"}
        /\ Finished => (result.action = "noop"
                           /\ result.changed = PyBool(FALSE))

\* C32 witness: the repeat of a variable update that lost its propagation
\* ended as a noop
C32_Witness ==
    /\ RetryAfterLostPropagation /\ family = "variables" /\ Finished
    /\ result.action = "noop" /\ p.save_to_disk /\ p.load_to_runtime

\* the statement issued last is the SAVE and it raised the store error
SaveFailed ==
    /\ Running /\ family \in {"users", "scheduler", "variables"}
    /\ result.failed /\ Len(log) >= 1 /\ IsSave(log[Len(log)])

\* C33: when both toggles are set and the SAVE fails, the run ends there
\* with the failure outcome and has issued no LOAD.
C33_FailedSaveStopsLoad ==
    (SaveFailed /\ p.save_to_disk /\ p.load_to_runtime) =>
        /\ pc = "done"
        /\ \A i \in 1..Len(log) : ~IsLoad(log[i])
        /\ result.changed = PyNone
        /\ result.msg[Len(result.msg)] = StoreDiagnostic

\* C33 witness: a user run with both toggles set ended on its failed SAVE
C33_Witness ==
    /\ SaveFailed /\ family = "users" /\ pc = "done"
    /\ p.save_to_disk /\ p.load_to_runtime /\ Mutated

\* C34 (as claimed): proxysql_manage_config declares check-mode support,
\* and a check-mode run issues no LOAD or SAVE command to the store.
C34_TransferDryRun ==
    (family = "manage_config" /\ Running /\ p.check_mode) => log = <<>>

\* the run under way is the state=absent run that follows a create
UndoesCreate ==
    /\ Running /\ cursor # None
    /\ "undoes" \in DOMAIN prev

\* what the create added to the table it found
CreatedBefore ==
    IF family = "users" THEN before \ prev.table
    ELSE before (-) prev.table

\* what the run under way has removed from the table it found
RemovedNow ==
    IF family = "users" THEN before \ mysql_users
    ELSE before (-) scheduler

\* C35: a live create followed at once by the same descriptor with
\* state=absent and no force_delete: the second run is never rejected and
\* never a noop, its DELETE removes exactly the row the create added, and
\* the table is then the table from before the create.
C35_RoundTrip ==
    UndoesCreate =>
        /\ result.action \in {"none", "delete"}
        /\ NoMutationIssued => CurrentTable = before
        /\ Mutated =>
              /\ RemovedNow = CreatedBefore
              /\ CurrentTable = prev.table
        /\ Finished => (result.action = "delete" /\ Mutated)

\* C35 witness: a schedule was created beside a row with the same key
\* fields, then removed again, and that row is still there
C35_Witness ==
    /\ UndoesCreate /\ family = "scheduler" /\ Finished
    /\ BagCardinality(prev.table) = 1 /\ BagCardinality(before) = 2
    /\ scheduler = prev.table
    /\ \A r \in DOMAIN before :
          /\ r.active = p.active /\ r.interval_ms = p.interval_ms
          /\ r.filename = p.filename

\* the value the descriptor holds for column c
ValueOfColumn(c) ==
    IF c \in DOMAIN p.config_data THEN p.config_data[c] ELSE p.key[c]

\* C36: in every statement the user and schedule builders generate, for
\* every set of supplied attributes and every iteration order of the dict,
\* there are as many placeholders as bound values and as named columns,
\* and the i-th bound value is the descriptor's value of the i-th column.
C36_PlaceholdersPaired ==
    pc = "constructed" =>
        \A i \in 1..Len(log) :
            LET s == log[i][3] IN
            /\ s.placeholders = Len(s.query_data)
            /\ s.placeholders = Len(s.columns)
            /\ \A k \in 1..Len(s.columns) :
                  s.query_data[k] = ValueOfColumn(s.columns[k])

\* C36 witness: an UPDATE with two SET columns was built by a dict that
\* walks them against the declared order
C36_Witness ==
    /\ pc = "constructed" /\ family = "users"
    /\ \E i \in 1..Len(log) :
          /\ log[i][1] = "SET"
          /\ log[i][3].columns =
                <<"active", "password", "username", "backend", "frontend">>
          /\ log[i][3].query_data[1] = "0" /\ log[i][3].query_data[2] = "a"

====
